---- MODULE Spec2Model ----
(***************************************************************************)
(* Precision Rifle Load Development: the test-record aggregation and query *)
(* engine (utils/data_loader.py and modules/data_analysis.py).             *)
(*                                                                         *)
(* Python values are modelled as tagged tuples so that values of different *)
(* Python types can be compared: None, Num(n) and Str(s).  A Python str is *)
(* a sequence of one-character strings.  A Python float is held in         *)
(* thousandths (23.50 is Num(23500)); the inputs carry at most three       *)
(* fractional digits, as the directory names written by generate_test_id   *)
(* do.  A dict is a function whose DOMAIN is the set of its keys.          *)
(***************************************************************************)
EXTENDS Integers, Sequences, FiniteSets, TLC

VARIABLES
    dir_name,     \* extract_test_info_from_path: the directory name given
    expect,       \* the components dir_name was composed from (oracle)
    test_info,    \* extract_test_info_from_path: the returned dict
    pc,           \* position of the call under study
    root,         \* the tests directory: "missing", "unlistable" or "ok"
    disk,         \* the entries of the tests directory and their group.yaml
    df,           \* load_all_test_data: the returned DataFrame, row by row
    op,           \* the operation performed last
    all_data,         \* DataAnalysisWidget.all_data, row by row
    filtered_index,   \* the index of filtered_data: labels of rows of all_data
    selected,         \* the 'selected' column of filtered_data, by label
    ui,               \* what the filter controls hold
    error,            \* the exception that escaped the last handler, or "none"
    dropped,          \* history: rows that were unselected when filtered out
    readmitted,       \* history: rows of dropped that the last apply_filters let back
    mm_value,         \* _mm_to_moa: the linear value given
    distance_m,       \* _mm_to_moa: the distance given
    moa_value,        \* _mm_to_moa: what the call returned, or how it ended
    view_all_data,    \* ViewTestWidget.all_data, row by row
    current_test_id,  \* ViewTestWidget.current_test_id
    deleted_test,      \* history: the test delete_test removed last
    settings, \* SettingsManager.settings
    origin, \* history: how _load_settings came by the settings
    returned, \* the last SettingsManager call: its arguments and what it returned
    tests_dir, \* the tests_dir attribute of the View Test and Create Test widgets
    created_in, \* history: the directory create_test made its last test in
    remaining, \* the rows of filtered_df in ViewTestWidget.apply_filters once the non-date filters are done
    shown_range, \* what date_from and date_to show when the date predicate is evaluated
    profiles, \* WindPlotWidget.profiles, a list of profile objects
    DEFAULT_PROFILES, \* the module-level list DEFAULT_PROFILES of wind_plot.py
    default_name, \* the name held by each of the two default profile dicts
    aliased, \* whether WindPlotWidget.profiles is the list object DEFAULT_PROFILES
    profiles_file, \* wind_plot_profiles.yaml: absent, unusable, or the names under "profiles"
    current_profile_index, \* WindPlotWidget.current_profile_index
    form, \* what the widgets of the View Test detail form hold
    shown_data, \* ViewTestWidget.test_data, the mapping loaded from group.yaml
    files, \* the group.yaml of each test directory
    tables, \* the tables of View Test and of Data Analysis, as loaded last
    emitted, \* how many times testUpdated has been emitted
    edited \* history: the user has changed the form since the last selection

parser_vars == <<dir_name, expect, test_info, pc>>
loader_vars == <<root, disk, df, op>>
widget_vars == <<all_data, filtered_index, selected, ui, error, dropped, readmitted>>
converter_vars == <<mm_value, distance_m, moa_value>>
view_vars == <<view_all_data, current_test_id, deleted_test>>
settings_vars == <<settings, origin, returned, tests_dir, created_in>>
filter_vars == <<remaining, shown_range>>
profile_vars == <<profiles, DEFAULT_PROFILES, default_name, aliased, profiles_file, current_profile_index>>
form_vars == <<form, shown_data, files, tables, emitted, edited>>
vars == <<parser_vars, loader_vars, widget_vars, converter_vars, view_vars, settings_vars, filter_vars, profile_vars, form_vars>>

-----------------------------------------------------------------------------
(* Python values *)

None == <<"None">>
Num(n) == <<"num", n>>
Str(s) == <<"str", s>>

IsNum(v) == Len(v) = 2 /\ v[1] = "num"
IsStr(v) == Len(v) = 2 /\ v[1] = "str"

Digits == {"0", "1", "2", "3", "4", "5", "6", "7", "8", "9"}

DigitVal(c) ==
    CASE c = "0" -> 0 [] c = "1" -> 1 [] c = "2" -> 2 [] c = "3" -> 3
      [] c = "4" -> 4 [] c = "5" -> 5 [] c = "6" -> 6 [] c = "7" -> 7
      [] c = "8" -> 8 [] c = "9" -> 9

-----------------------------------------------------------------------------
(* str.split(sep): the pieces between the non-overlapping occurrences of   *)
(* sep, found left to right.                                               *)

FirstAt(s, sep) ==
    LET hits == {i \in 1..(Len(s) - Len(sep) + 1) :
                    SubSeq(s, i, i + Len(sep) - 1) = sep}
    IN  IF hits = {} THEN 0 ELSE CHOOSE i \in hits : \A j \in hits : i <= j

RECURSIVE split(_, _)
split(s, sep) ==
    LET i == FirstAt(s, sep)
    IN  IF i = 0 THEN <<s>>
        ELSE <<SubSeq(s, 1, i - 1)>> \o split(SubSeq(s, i + Len(sep), Len(s)), sep)

(* str.replace(old, new) for one-character old and new *)
replace(s, old, new) == [i \in 1..Len(s) |-> IF s[i] = old THEN new ELSE s[i]]

-----------------------------------------------------------------------------
\* re.search with the pattern of an integer (a run of digits) and with the
\* pattern of a decimal (a run of digits, an optional point, an optional run
\* of digits): the leftmost match, each quantifier greedy.  The match is the
\* pair of its first and last index, or <<0, 0>> when re.search returns None.

RECURSIVE DigitRunEnd(_, _)
DigitRunEnd(s, i) ==
    \* last index of the run of digits starting at i (i - 1 when s[i] is none)
    IF i <= Len(s) /\ s[i] \in Digits THEN DigitRunEnd(s, i + 1) ELSE i - 1

FirstDigit(s) ==
    LET at == {i \in 1..Len(s) : s[i] \in Digits}
    IN  IF at = {} THEN 0 ELSE CHOOSE i \in at : \A j \in at : i <= j

search_int(s) ==
    LET b == FirstDigit(s)
    IN  IF b = 0 THEN <<0, 0>> ELSE <<b, DigitRunEnd(s, b)>>

search_decimal(s) ==
    LET b == FirstDigit(s)
        e == DigitRunEnd(s, b)
    IN  IF b = 0 THEN <<0, 0>>
        ELSE IF e < Len(s) /\ s[e + 1] = "."
             THEN <<b, DigitRunEnd(s, e + 2)>>
             ELSE <<b, e>>

RECURSIVE DigitsValue(_)
DigitsValue(s) ==
    IF s = <<>> THEN 0
    ELSE DigitsValue(SubSeq(s, 1, Len(s) - 1)) * 10 + DigitVal(s[Len(s)])

(* float(text) of a text matched by one of the two patterns, in thousandths *)
float_of_match(text) ==
    LET dot  == FirstAt(text, <<".">>)
        ip   == IF dot = 0 THEN text ELSE SubSeq(text, 1, dot - 1)
        fp   == IF dot = 0 THEN <<>> ELSE SubSeq(text, dot + 1, Len(text))
        fp3  == [i \in 1..3 |-> IF i <= Len(fp) THEN fp[i] ELSE "0"]
    IN  DigitsValue(ip) * 1000 + DigitsValue(fp3)

(* float(m.group(1)) if m else 0 *)
numeric_value(s, m) ==
    IF m = <<0, 0>> THEN Num(0) ELSE Num(float_of_match(SubSeq(s, m[1], m[2])))

-----------------------------------------------------------------------------
(* extract_test_info_from_path *)

Unknown == <<"U", "n", "k", "n", "o", "w", "n">>

(* a faulty variant of the except branch, which forgets the directory name *)
minimal_info_without_name(name) ==
    [test_id |-> Str(Unknown), date |-> Str(Unknown), distance |-> Str(Unknown),
     distance_m |-> Num(0), calibre |-> Str(Unknown), rifle |-> Str(Unknown),
     case_brand |-> Str(Unknown), bullet_brand |-> Str(Unknown),
     bullet_model |-> Str(Unknown), bullet_weight |-> Str(Unknown),
     bullet_weight_gr |-> Num(0), powder_brand |-> Str(Unknown),
     powder_model |-> Str(Unknown), powder_charge |-> Str(Unknown),
     powder_charge_gr |-> Num(0), coal |-> Str(Unknown), coal_in |-> Num(0),
     b2o |-> Str(Unknown), b2o_in |-> Num(0), primer |-> Str(Unknown)]

(* the dict of the except branch *)
minimal_info(name) ==
    [test_id |-> Str(name), date |-> Str(Unknown), distance |-> Str(Unknown),
     distance_m |-> Num(0), calibre |-> Str(Unknown), rifle |-> Str(Unknown),
     case_brand |-> Str(Unknown), bullet_brand |-> Str(Unknown),
     bullet_model |-> Str(Unknown), bullet_weight |-> Str(Unknown),
     bullet_weight_gr |-> Num(0), powder_brand |-> Str(Unknown),
     powder_model |-> Str(Unknown), powder_charge |-> Str(Unknown),
     powder_charge_gr |-> Num(0), coal |-> Str(Unknown), coal_in |-> Num(0),
     b2o |-> Str(Unknown), b2o_in |-> Num(0), primer |-> Str(Unknown)]

(* the dict of the try branch; parts is test_info.split('_'), 0-based in   *)
(* the source and 1-based here                                             *)
parsed_info(name, date_str, parts) ==
    LET distance      == parts[1]
        bullet_weight == parts[7]
        powder_charge == parts[10]
        coal          == parts[11]
        b2o           == parts[12]
        primer        == IF Len(parts) > 12 THEN parts[13] ELSE Unknown
    IN  [test_id |-> Str(name), date |-> Str(date_str),
         distance |-> Str(distance),
         distance_m |-> numeric_value(distance, search_int(distance)),
         calibre |-> Str(parts[2]),
         rifle |-> Str(replace(parts[3], "-", " ")),
         case_brand |-> Str(parts[4]),
         bullet_brand |-> Str(parts[5]),
         bullet_model |-> Str(parts[6]),
         bullet_weight |-> Str(bullet_weight),
         bullet_weight_gr |-> numeric_value(bullet_weight, search_decimal(bullet_weight)),
         powder_brand |-> Str(parts[8]),
         powder_model |-> Str(parts[9]),
         powder_charge |-> Str(powder_charge),
         powder_charge_gr |-> numeric_value(powder_charge, search_decimal(powder_charge)),
         coal |-> Str(coal),
         coal_in |-> numeric_value(coal, search_decimal(coal)),
         b2o |-> Str(b2o),
         b2o_in |-> numeric_value(b2o, search_decimal(b2o)),
         primer |-> Str(primer)]

extract_test_info_from_path(name) ==
    LET halves == split(name, <<"_", "_">>)
    IN  IF Len(halves) # 2
        THEN minimal_info(name)              \* ValueError: unpacking
        ELSE LET parts == split(halves[2], <<"_">>)
             IN  IF Len(parts) < 12
                 THEN minimal_info(name)     \* IndexError: parts[11]
                 ELSE parsed_info(name, halves[1], parts)

-----------------------------------------------------------------------------
(* Directory names given to extract_test_info_from_path.  A name is        *)
(* composed from a date and a list of tokens the way generate_test_id      *)
(* composes it; each numeric token comes with the number it embeds, or     *)
(* None when it embeds none.                                               *)

Tok(text, value) == [text |-> text, value |-> value]

DateTokens     == {<<"2", "0", "2", "5", "-", "0", "4", "-", "1", "5">>}
DistanceTokens == {Tok(<<"1", "0", "0", "m">>, Num(100000)), Tok(<<"m">>, None)}
WeightTokens   == {Tok(<<"7", "5", "g", "r">>, Num(75000)), Tok(<<"g", "r">>, None)}
ChargeTokens   == {Tok(<<"2", "3", ".", "5", "0", "g", "r">>, Num(23500)),
                   Tok(<<"x", "g", "r">>, None)}
CoalTokens     == {Tok(<<"2", ".", "4", "1", "0", "i", "n">>, Num(2410)),
                   Tok(<<"i", "n">>, None)}
B2oTokens      == {Tok(<<"1", ".", "7", "8", "4", "i", "n">>, Num(1784))}
RifleTokens    == {[text |-> <<"T", "-", "3">>, spaced |-> <<"T", " ", "3">>],
                   [text |-> <<"T", "3">>, spaced |-> <<"T", "3">>]}

Calibre     == <<"c", "a", "l">>
CaseBrand   == <<"c", "s">>
BulletBrand == <<"b", "b">>
BulletModel == <<"b", "m">>
PowderBrand == <<"p", "b">>
PowderModel == <<"p", "m">>
PrimerBrand == <<"C", "C", "I">>
PrimerModel == <<"B", "R", "4">>

(* "pattern": the fourteen tokens of the legacy pattern.  The other shapes  *)
(* are names that do not have the expected tokens.                         *)
Shapes == {"pattern", "no_primer_model", "no_primer", "no_b2o", "extra_token",
           "single_underscore", "two_separators"}

Components ==
    [date : DateTokens, distance : DistanceTokens, rifle : RifleTokens,
     bullet_weight : WeightTokens, powder_charge : ChargeTokens,
     coal : CoalTokens, b2o : B2oTokens, shape : Shapes]

RECURSIVE join(_, _)
join(parts, sep) ==
    IF Len(parts) = 0 THEN <<>>
    ELSE IF Len(parts) = 1 THEN parts[1]
    ELSE parts[1] \o sep \o join(Tail(parts), sep)

Tokens(c) ==
    LET twelve == <<c.distance.text, Calibre, c.rifle.text, CaseBrand,
                    BulletBrand, BulletModel, c.bullet_weight.text,
                    PowderBrand, PowderModel, c.powder_charge.text,
                    c.coal.text, c.b2o.text>>
    IN  CASE c.shape = "no_primer_model" -> twelve \o <<PrimerBrand>>
          [] c.shape = "no_primer"       -> twelve
          [] c.shape = "no_b2o"          -> SubSeq(twelve, 1, 11)
          [] c.shape = "extra_token"     -> twelve \o <<PrimerBrand, PrimerModel, <<"1">>>>
          [] OTHER                       -> twelve \o <<PrimerBrand, PrimerModel>>

NameOf(c) ==
    CASE c.shape = "single_underscore" -> c.date \o <<"_">> \o join(Tokens(c), <<"_">>)
      [] c.shape = "two_separators"    -> c.date \o <<"_", "_">> \o c.date \o <<"_", "_">>
                                          \o join(Tokens(c), <<"_">>)
      [] OTHER                         -> c.date \o <<"_", "_">> \o join(Tokens(c), <<"_">>)

NumericTokens(c) == {c.distance, c.bullet_weight, c.powder_charge, c.coal, c.b2o}

(* the name matches the legacy pattern of generate_test_id *)
MatchesPattern(c) ==
    c.shape = "pattern" /\ \A t \in NumericTokens(c) : t.value # None

-----------------------------------------------------------------------------
(* dict.get and the YAML documents.  A mapping is Map(f); a null is None.   *)

Map(f) == <<"map", f>>
IsMap(v) == Len(v) = 2 /\ v[1] = "map"
EmptyDict == Map([k \in {} |-> None])

(* d.get(k, default) and d.get(k) of a mapping d *)
get(d, k, default) == IF k \in DOMAIN d[2] THEN d[2][k] ELSE default

(* the keys common to the three all-None dicts of load_group_data *)
BaseKeys ==
    {"group_es_mm", "group_es_moa", "group_es_x_mm", "group_es_x_moa",
     "group_es_y_mm", "group_es_y_moa", "mean_radius_mm", "mean_radius_moa",
     "poi_x_mm", "poi_x_moa", "poi_y_mm", "poi_y_moa", "shots",
     "avg_velocity_fps", "sd_fps", "es_fps",
     "temperature_c", "humidity_pct", "pressure_hpa", "wind_speed_ms",
     "wind_direction", "light_conditions",
     "barrel_length_in", "twist_rate", "bullet_lot", "powder_lot",
     "powder_model", "case_brand", "case_lot", "neck_turned", "brass_sizing",
     "bushing_size", "shoulder_bump", "primer_brand", "primer_model",
     "primer_lot"}

(* returned when group.yaml does not exist *)
no_file_data == [k \in BaseKeys \cup {"mandrel", "mandrel_size"} |-> None]

(* a faulty variant of the all-None dict, with a count defaulted to zero *)
invalid_data_with_zero == [k \in BaseKeys |-> IF k = "shots" THEN Num(0) ELSE None]

(* returned when the document is None or not a dict, and by the except branch *)
invalid_data == [k \in BaseKeys |-> None]

(* the dict built from a document that is a mapping; every x_data here is a *)
(* mapping                                                                  *)
flat_data(yaml_data, group_data, chrono_data, environment_data, platform_data, ammo_data, bullet_data, powder_data, case_data, primer_data) ==
    [date |-> get(yaml_data, "date", None),
     distance_m |-> get(yaml_data, "distance_m", None),
     calibre |-> get(platform_data, "calibre", None),
     rifle |-> get(platform_data, "rifle", None),
     bullet_brand |-> get(bullet_data, "brand", None),
     bullet_model |-> get(bullet_data, "model", None),
     bullet_weight_gr |-> get(bullet_data, "weight_gr", None),
     powder_brand |-> get(powder_data, "brand", None),
     powder_model |-> get(powder_data, "model", None),
     powder_charge_gr |-> get(powder_data, "charge_gr", None),
     coal_in |-> get(ammo_data, "coal_in", None),
     b2o_in |-> get(ammo_data, "b2o_in", None),
     group_es_mm |-> get(group_data, "group_es_mm", None),
     group_es_moa |-> get(group_data, "group_es_moa", None),
     group_es_x_mm |-> get(group_data, "group_es_x_mm", None),
     group_es_x_moa |-> get(group_data, "group_es_x_moa", None),
     group_es_y_mm |-> get(group_data, "group_es_y_mm", None),
     group_es_y_moa |-> get(group_data, "group_es_y_moa", None),
     mean_radius_mm |-> get(group_data, "mean_radius_mm", None),
     mean_radius_moa |-> get(group_data, "mean_radius_moa", None),
     poi_x_mm |-> get(group_data, "poi_x_mm", None),
     poi_x_moa |-> get(group_data, "poi_x_moa", None),
     poi_y_mm |-> get(group_data, "poi_y_mm", None),
     poi_y_moa |-> get(group_data, "poi_y_moa", None),
     shots |-> get(group_data, "shots", None),
     avg_velocity_fps |-> get(chrono_data, "avg_velocity_fps", None),
     sd_fps |-> get(chrono_data, "sd_fps", None),
     es_fps |-> get(chrono_data, "es_fps", None),
     temperature_c |-> get(environment_data, "temperature_c", None),
     humidity_pct |-> get(environment_data, "humidity_percent", None),
     pressure_hpa |-> get(environment_data, "pressure_hpa", None),
     wind_speed_ms |-> get(environment_data, "wind_speed_mps", None),
     wind_direction |-> get(environment_data, "wind_dir_deg", None),
     light_conditions |-> get(environment_data, "weather", None),
     barrel_length_in |-> get(platform_data, "barrel_length_in", None),
     twist_rate |-> get(platform_data, "twist_rate", None),
     bullet_lot |-> get(bullet_data, "lot", None),
     powder_lot |-> get(powder_data, "lot", None),
     case_brand |-> get(case_data, "brand", None),
     case_lot |-> get(case_data, "lot", None),
     neck_turned |-> get(case_data, "neck_turned", None),
     brass_sizing |-> get(case_data, "brass_sizing", None),
     bushing_size |-> get(case_data, "bushing_size", None),
     shoulder_bump |-> get(case_data, "shoulder_bump", None),
     mandrel |-> get(case_data, "mandrel", None),
     mandrel_size |-> get(case_data, "mandrel_size", None),
     primer_brand |-> get(primer_data, "brand", None),
     primer_model |-> get(primer_data, "model", None),
     primer_lot |-> get(primer_data, "lot", None)]

(* load_group_data of a test directory whose group.yaml is doc.  Calling    *)
(* .get on a value that is not a dict raises AttributeError, which the     *)
(* except branch turns into the all-None dict.                             *)
load_group_data(doc) ==
    IF doc.kind = "absent" THEN no_file_data
    ELSE IF doc.kind = "unreadable" THEN invalid_data      \* open or safe_load raises
    ELSE IF doc.kind = "not_mapping" THEN invalid_data
    ELSE
      LET yaml_data        == Map(doc.data)
          group_data       == get(yaml_data, "group", EmptyDict)
          chrono_data      == get(yaml_data, "chrono", EmptyDict)
          environment_data == get(yaml_data, "environment", EmptyDict)
          platform_data    == get(yaml_data, "platform", EmptyDict)
          ammo_data        == get(yaml_data, "ammo", EmptyDict)
      IN  IF ~IsMap(ammo_data) THEN invalid_data
          ELSE
            LET bullet_data == get(ammo_data, "bullet", EmptyDict)
                powder_data == get(ammo_data, "powder", EmptyDict)
                case_data   == get(ammo_data, "case", EmptyDict)
                primer_data == get(ammo_data, "primer", EmptyDict)
            IN  IF \E x \in {group_data, chrono_data, environment_data,
                             platform_data, bullet_data, powder_data,
                             case_data, primer_data} : ~IsMap(x)
                THEN invalid_data
                ELSE flat_data(yaml_data, group_data, chrono_data,
                               environment_data, platform_data, ammo_data,
                               bullet_data, powder_data, case_data, primer_data)

-----------------------------------------------------------------------------
(* load_all_test_data: the merge of one directory *)

(* the loop over group_data.items(), then merged_data['test_id'] = test_id *)
merge(info, group_data) ==
    LET keys == DOMAIN info \cup {k \in DOMAIN group_data : group_data[k] # None}
        merged_data ==
            [k \in keys |->
                IF k \in DOMAIN group_data /\ group_data[k] # None
                THEN group_data[k]
                ELSE info[k]]
    IN  [merged_data EXCEPT !["test_id"] = info.test_id]

-----------------------------------------------------------------------------
(* the sort of load_all_test_data: sort_values(['date', 'powder_charge_gr']) *)
(* on a copy with the dates filled and the charges made numeric.  Strings  *)
(* compare by code point.                                                  *)

Alphabet ==
    <<" ", "-", ".", "0", "1", "2", "3", "4", "5", "6", "7", "8", "9",
      "A", "B", "C", "D", "E", "F", "G", "H", "I", "J", "K", "L", "M",
      "N", "O", "P", "Q", "R", "S", "T", "U", "V", "W", "X", "Y", "Z", "_",
      "a", "b", "c", "d", "e", "f", "g", "h", "i", "j", "k", "l", "m",
      "n", "o", "p", "q", "r", "s", "t", "u", "v", "w", "x", "y", "z">>

Ord(c) == CHOOSE i \in 1..Len(Alphabet) : Alphabet[i] = c

RECURSIVE str_less(_, _)
str_less(a, b) ==
    IF b = <<>> THEN FALSE
    ELSE IF a = <<>> THEN TRUE
    ELSE IF a[1] # b[1] THEN Ord(a[1]) < Ord(b[1])
    ELSE str_less(Tail(a), Tail(b))

str_leq(a, b) == a = b \/ str_less(a, b)

SentinelDate == <<"1", "9", "0", "0", "-", "0", "1", "-", "0", "1">>

(* df_sorted['date'].fillna('1900-01-01') *)
sort_date(row) ==
    IF "date" \in DOMAIN row /\ row["date"] # None THEN row["date"] ELSE Str(SentinelDate)

(* a faulty variant: the powder charge takes no part in the order *)
sort_charge_ignored(row) == 0

(* pd.to_numeric(df_sorted['powder_charge_gr'], errors='coerce').fillna(0) *)
sort_charge(row) ==
    IF "powder_charge_gr" \in DOMAIN row /\ IsNum(row["powder_charge_gr"])
    THEN row["powder_charge_gr"][2] ELSE 0

(* comparing a str with a number raises TypeError: the sort is abandoned *)
sortable(rows) ==
    \/ \A i \in 1..Len(rows) : IsStr(sort_date(rows[i]))
    \/ \A i \in 1..Len(rows) : IsNum(sort_date(rows[i]))

date_less(a, b) == IF IsStr(a) THEN str_less(a[2], b[2]) ELSE a[2] < b[2]

key_less(r1, r2) ==
    \/ date_less(sort_date(r1), sort_date(r2))
    \/ sort_date(r1) = sort_date(r2) /\ sort_charge(r1) < sort_charge(r2)

RECURSIVE insert_row(_, _)
insert_row(sorted, r) ==
    \* r goes before the first row that is greater: equal keys keep their order
    IF sorted = <<>> THEN <<r>>
    ELSE IF key_less(r, sorted[1]) THEN <<r>> \o sorted
    ELSE <<sorted[1]>> \o insert_row(Tail(sorted), r)

RECURSIVE sort_values(_)
sort_values(rows) ==
    IF rows = <<>> THEN <<>>
    ELSE insert_row(sort_values(SubSeq(rows, 1, Len(rows) - 1)), rows[Len(rows)])

-----------------------------------------------------------------------------
(* The tests directory.  An entry is a directory or a plain file, hidden    *)
(* (its name starts with a dot) or not; a directory holds a group.yaml     *)
(* document, or none.                                                      *)

Component(distance, rifle, bullet_weight, shape) ==
    [date |-> <<"2", "0", "2", "5", "-", "0", "4", "-", "1", "5">>,
     distance |-> distance, rifle |-> rifle,
     bullet_weight |-> bullet_weight,
     powder_charge |-> Tok(<<"2", "3", ".", "5", "0", "g", "r">>, Num(23500)),
     coal |-> Tok(<<"2", ".", "4", "1", "0", "i", "n">>, Num(2410)),
     b2o |-> Tok(<<"1", ".", "7", "8", "4", "i", "n">>, Num(1784)),
     shape |-> shape]

Hyphened == [text |-> <<"T", "-", "3">>, spaced |-> <<"T", " ", "3">>]
Plain    == [text |-> <<"T", "3">>, spaced |-> <<"T", "3">>]
Metres   == Tok(<<"1", "0", "0", "m">>, Num(100000))
Grains   == Tok(<<"7", "5", "g", "r">>, Num(75000))

Entry(c, hidden, is_dir) == [c |-> c, hidden |-> hidden, is_dir |-> is_dir]

GoodDir     == Entry(Component(Metres, Hyphened, Grains, "pattern"), FALSE, TRUE)
OtherDir    == Entry(Component(Metres, Plain, Grains, "pattern"), FALSE, TRUE)
NoNumberDir == Entry(Component(Tok(<<"m">>, None), Hyphened,
                               Tok(<<"g", "r">>, None), "pattern"), FALSE, TRUE)
BadNameDir  == Entry(Component(Metres, Hyphened, Grains, "no_b2o"), FALSE, TRUE)
HiddenDir   == Entry(Component(Metres, Hyphened, Grains, "pattern"), TRUE, TRUE)
PlainFile   == Entry(Component(Metres, Plain, Grains, "no_primer"), FALSE, FALSE)

TestDirs == {GoodDir, OtherDir, NoNumberDir, BadNameDir}
Entries  == TestDirs \cup {HiddenDir, PlainFile}

EntryName(e) == IF e.hidden THEN <<".">> \o NameOf(e.c) ELSE NameOf(e.c)

(* group.yaml documents *)
NoFile     == [kind |-> "absent"]
Unreadable == [kind |-> "unreadable"]
NotMapping == [kind |-> "not_mapping"]
Yaml(data) == [kind |-> "mapping", data |-> data]

Text2024 == <<"2", "0", "2", "4", "-", "0", "1", "-", "1", "0">>
Text223  == <<"2", "2", "3">>
Clear    == <<"C", "l", "e", "a", "r">>

FullDoc ==
    Yaml([test_id |-> Str(<<"o", "t", "h", "e", "r">>),
          date |-> Str(Text2024), distance_m |-> Num(200000),
          platform |-> Map([rifle |-> None, calibre |-> Str(Text223)]),
          ammo |-> Map([bullet |-> Map([weight_gr |-> Num(77000)]),
                        powder |-> Map([charge_gr |-> Num(24000)]),
                        coal_in |-> Num(2300),
                        primer |-> Map([brand |-> Str(PrimerBrand),
                                        model |-> Str(PrimerModel)])]),
          group |-> Map([group_es_mm |-> Num(15200), shots |-> Num(5000)]),
          chrono |-> Map([avg_velocity_fps |-> Num(2850500)]),
          environment |-> Map([weather |-> Str(Clear)])])

SparseDoc ==
    Yaml([date |-> None,
          ammo |-> Map([powder |-> Map([charge_gr |-> Num(22000)])]),
          group |-> Map([group_es_mm |-> Num(12000), shots |-> None])])

NullAmmoDoc ==
    Yaml([date |-> Str(Text2024), distance_m |-> Num(200000), ammo |-> None,
          group |-> Map([group_es_mm |-> Num(9000)])])

Docs == {NoFile, Unreadable, NotMapping, FullDoc, SparseDoc, NullAmmoDoc}

NoEntries == [e \in {} |-> NoFile]

MaxDirs == 2

Disks ==
    UNION {[es -> Docs] : es \in {x \in SUBSET Entries : Cardinality(x) <= MaxDirs}}

(* a disk the program can meet: only a directory holds a group.yaml *)
WellFormedDisk(d) == \A e \in DOMAIN d : (e.hidden \/ ~e.is_dir) => d[e] = NoFile

Listings(d) ==
    {o \in [1..Cardinality(DOMAIN d) -> DOMAIN d] :
        \A i, j \in DOMAIN o : i # j => o[i] # o[j]}

-----------------------------------------------------------------------------
(* load_all_test_data.  listing is os.listdir(tests_dir), in the order the  *)
(* file system gives it.                                                   *)

RECURSIVE select_seq(_, _)
select_seq(seq, keep) ==
    IF seq = <<>> THEN <<>>
    ELSE IF seq[1] \in keep THEN <<seq[1]>> \o select_seq(Tail(seq), keep)
    ELSE select_seq(Tail(seq), keep)

startswith_dot(name) == Len(name) >= 1 /\ name[1] = "."

merged_row(d, e) ==
    merge(extract_test_info_from_path(EntryName(e)), load_group_data(d[e]))

(* a faulty variant: the scan stops at the first directory whose group.yaml *)
(* cannot be used, instead of going on to the next directory               *)
load_all_test_data_aborting(r, d, listing) ==
    IF r # "ok" THEN <<>>
    ELSE
      LET test_dirs == select_seq(listing,
                          {e \in DOMAIN d : e.is_dir /\ ~startswith_dot(EntryName(e))})
          failed    == {i \in 1..Len(test_dirs) :
                          d[test_dirs[i]].kind \in {"unreadable", "not_mapping"}}
          n         == IF failed = {} THEN Len(test_dirs)
                       ELSE (CHOOSE i \in failed : \A j \in failed : i <= j) - 1
          test_data == [i \in 1..n |-> merged_row(d, test_dirs[i])]
      IN  IF test_data = <<>> THEN <<>>
          ELSE IF sortable(test_data) THEN sort_values(test_data)
          ELSE test_data

(* a faulty variant: the tests directory is read without the guards *)
load_all_test_data_unguarded(r, d, listing) ==
    LET test_dirs == select_seq(listing,
                        {e \in DOMAIN d : e.is_dir /\ ~startswith_dot(EntryName(e))})
        test_data == [i \in 1..Len(test_dirs) |-> merged_row(d, test_dirs[i])]
    IN  IF test_data = <<>> THEN <<>>
        ELSE IF sortable(test_data) THEN sort_values(test_data)
        ELSE test_data

load_all_test_data(r, d, listing) ==
    IF r = "missing" THEN <<>>                  \* not os.path.isdir(tests_dir)
    ELSE IF r = "unlistable" THEN <<>>          \* os.listdir raises
    ELSE
      LET test_dirs == select_seq(listing,
                          {e \in DOMAIN d : e.is_dir /\ ~startswith_dot(EntryName(e))})
          test_data == [i \in 1..Len(test_dirs) |-> merged_row(d, test_dirs[i])]
      IN  IF test_data = <<>> THEN <<>>
          ELSE IF sortable(test_data) THEN sort_values(test_data)
          ELSE test_data

-----------------------------------------------------------------------------
(* Specification of the Corpus Builder: the table is rebuilt, any number of *)
(* times, over a tests directory in any state.                             *)

NoInfo == [test_id |-> None]

ParkedConverter == mm_value = None /\ distance_m = None /\ moa_value = None

ParkedView == view_all_data = <<>> /\ current_test_id = None /\ deleted_test = None

ParkedSettings == settings = None /\ origin = None /\ returned = None /\ tests_dir = None /\ created_in = None

ParkedFilter == remaining = <<>> /\ shown_range = None

ParkedProfiles == profiles = <<>> /\ DEFAULT_PROFILES = <<>> /\ default_name = <<>> /\ aliased = FALSE /\ profiles_file = None /\ current_profile_index = 0

ParkedForm == form = None /\ shown_data = None /\ files = None /\ tables = None /\ emitted = 0 /\ edited = FALSE

ParkedParser ==
    /\ expect = GoodDir.c /\ dir_name = NameOf(GoodDir.c)
    /\ test_info = NoInfo /\ pc = "done"

ParkedWidget ==
    /\ all_data = <<>> /\ filtered_index = <<>> /\ selected = <<>>
    /\ ui = <<>> /\ error = "none" /\ dropped = {} /\ readmitted = {}

LoaderInit ==
    /\ ParkedParser /\ ParkedWidget /\ ParkedConverter /\ ParkedView /\ ParkedSettings /\ ParkedFilter /\ ParkedProfiles /\ ParkedForm
    /\ root \in {"missing", "unlistable", "ok"}
    /\ disk \in {d \in Disks : WellFormedDisk(d)}
    /\ root = "missing" => disk = NoEntries
    /\ root = "unlistable" => Cardinality(DOMAIN disk) <= 1
    /\ df = <<>>
    /\ op = "init"

LoadAllTestData ==
    /\ \E listing \in Listings(disk) :
          df' = load_all_test_data(root, disk, listing)
    /\ op' = IF op = "init" THEN "load" ELSE "reload"
    /\ UNCHANGED <<form_vars, profile_vars, filter_vars, settings_vars, root, disk, parser_vars, widget_vars, converter_vars, view_vars>>

LoaderNext == LoadAllTestData

SpecLoader == LoaderInit /\ [][LoaderNext]_vars

-----------------------------------------------------------------------------
(* Specification of the Legacy Name Parser: one call per behaviour *)

ParserInit ==
    /\ expect \in Components
    /\ dir_name = NameOf(expect)
    /\ test_info = NoInfo
    /\ pc = "call"
    /\ root = "ok" /\ disk = NoEntries /\ df = <<>> /\ op = "init"
    /\ ParkedWidget /\ ParkedConverter /\ ParkedView /\ ParkedSettings /\ ParkedFilter /\ ParkedProfiles /\ ParkedForm

ParsePath ==
    /\ pc = "call"
    /\ test_info' = extract_test_info_from_path(dir_name)
    /\ pc' = "done"
    /\ UNCHANGED <<form_vars, profile_vars, filter_vars, settings_vars, dir_name, expect, loader_vars, widget_vars, converter_vars, view_vars>>

ParserNext == ParsePath

SpecParser == ParserInit /\ [][ParserNext]_vars

-----------------------------------------------------------------------------
(* C9: extract_test_info_from_path never raises, and a name without the    *)
(* expected tokens, or with a numeric token that embeds no number, yields  *)
(* the degraded record: test_id is the name and every other field is       *)
(* missing or unknown.  Read generously: the 0 that the code's own         *)
(* degraded record carries in the numeric fields is accepted as missing.   *)

NumericKeys == {"distance_m", "bullet_weight_gr", "powder_charge_gr", "coal_in", "b2o_in"}

IsDegraded(info, name) ==
    /\ info.test_id = Str(name)
    /\ \A k \in DOMAIN info \ {"test_id"} :
          IF k \in NumericKeys THEN info[k] \in {None, Num(0)}
          ELSE info[k] \in {None, Str(Unknown)}

C9_DegradedOnBadName ==
    (pc = "done" /\ ~MatchesPattern(expect)) => IsDegraded(test_info, dir_name)

(* C10: a name that matches the legacy pattern yields test_id = name, the  *)
(* date before the double underscore, the five numbers embedded in their   *)
(* tokens, the rifle with hyphens as spaces, and a populated value for     *)
(* every component, primer brand and primer model included.                *)

Holds(info, text) == \E k \in DOMAIN info : info[k] = Str(text)

C10_NumbersAndNames ==
    (pc = "done" /\ MatchesPattern(expect)) =>
        /\ test_info.test_id = Str(dir_name)
        /\ test_info.date = Str(expect.date)
        /\ test_info.distance_m = expect.distance.value
        /\ test_info.bullet_weight_gr = expect.bullet_weight.value
        /\ test_info.powder_charge_gr = expect.powder_charge.value
        /\ test_info.coal_in = expect.coal.value
        /\ test_info.b2o_in = expect.b2o.value
        /\ test_info.rifle = Str(expect.rifle.spaced)
        /\ test_info.calibre = Str(Calibre)
        /\ test_info.case_brand = Str(CaseBrand)
        /\ test_info.bullet_brand = Str(BulletBrand)
        /\ test_info.bullet_model = Str(BulletModel)
        /\ test_info.powder_brand = Str(PowderBrand)
        /\ test_info.powder_model = Str(PowderModel)

C10_FullyPopulated ==
    /\ C10_NumbersAndNames
    /\ (pc = "done" /\ MatchesPattern(expect)) =>
          (Holds(test_info, PrimerBrand) /\ Holds(test_info, PrimerModel))

-----------------------------------------------------------------------------
(* What the tests directory holds, read off the directory entries and the   *)
(* group.yaml documents themselves.                                        *)

Loaded == op \in {"load", "reload"}

VisibleDirs(d) == {e \in DOMAIN d : e.is_dir /\ ~e.hidden}

TestIds(t) == {t[i].test_id : i \in 1..Len(t)}

Cell(row, k) == IF k \in DOMAIN row THEN row[k] ELSE None

(* where group.yaml keeps a field that the directory name carries too *)
YamlPath ==
    [date |-> <<"date">>, distance_m |-> <<"distance_m">>,
     calibre |-> <<"platform", "calibre">>, rifle |-> <<"platform", "rifle">>,
     bullet_brand |-> <<"ammo", "bullet", "brand">>,
     bullet_model |-> <<"ammo", "bullet", "model">>,
     bullet_weight_gr |-> <<"ammo", "bullet", "weight_gr">>,
     powder_brand |-> <<"ammo", "powder", "brand">>,
     powder_model |-> <<"ammo", "powder", "model">>,
     powder_charge_gr |-> <<"ammo", "powder", "charge_gr">>,
     coal_in |-> <<"ammo", "coal_in">>, b2o_in |-> <<"ammo", "b2o_in">>,
     case_brand |-> <<"ammo", "case", "brand">>]

SharedKeys == DOMAIN YamlPath

(* the value at a path of a document; None when a step is absent or null *)
RECURSIVE Lookup(_, _)
Lookup(f, path) ==
    IF path[1] \notin DOMAIN f THEN None
    ELSE IF Len(path) = 1 THEN f[path[1]]
    ELSE IF IsMap(f[path[1]]) THEN Lookup(f[path[1]][2], Tail(path))
    ELSE None

(* the value group.yaml holds for field k *)
FileValue(doc, k) ==
    IF doc.kind = "mapping" THEN Lookup(doc.data, YamlPath[k]) ELSE None

(* the number the directory name carries for numeric field k *)
NameValue(c, k) ==
    CASE k = "distance_m"       -> c.distance.value
      [] k = "bullet_weight_gr" -> c.bullet_weight.value
      [] k = "powder_charge_gr" -> c.powder_charge.value
      [] k = "coal_in"          -> c.coal.value
      [] k = "b2o_in"           -> IF c.shape = "no_b2o" THEN None ELSE c.b2o.value

(* C6: for a field of both sources the merged row holds the group.yaml     *)
(* value when that value is non-missing, and keeps the parser value when   *)
(* the field is absent or null in group.yaml.                              *)
C6_FileValueWins ==
    Loaded =>
        \A i \in 1..Len(df) : \A e \in VisibleDirs(disk) :
            df[i].test_id = Str(EntryName(e)) =>
                \A k \in SharedKeys :
                    Cell(df[i], k) =
                        IF FileValue(disk[e], k) # None
                        THEN FileValue(disk[e], k)
                        ELSE extract_test_info_from_path(EntryName(e))[k]

(* C6, as far as the merge step goes: the same precedence between the      *)
(* parser value and the record load_group_data returned for the directory  *)
C6_LoadedRecordWins ==
    Loaded =>
        \A i \in 1..Len(df) : \A e \in VisibleDirs(disk) :
            df[i].test_id = Str(EntryName(e)) =>
                \A k \in SharedKeys :
                    Cell(df[i], k) =
                        IF Cell(load_group_data(disk[e]), k) # None
                        THEN Cell(load_group_data(disk[e]), k)
                        ELSE extract_test_info_from_path(EntryName(e))[k]

(* C7: every row's test_id is the name of its subdirectory, whatever       *)
(* group.yaml contains; test_id is unique in the table and the same ids    *)
(* come back when the same root is loaded again.                           *)
C7_TestIdIsDirName ==
    [][ /\ TestIds(df') \subseteq {Str(EntryName(e)) : e \in VisibleDirs(disk)}
        /\ Cardinality(TestIds(df')) = Len(df')
        /\ root = "ok" => Len(df') = Cardinality(VisibleDirs(disk))
        /\ op' = "reload" => TestIds(df') = TestIds(df) ]_vars

(* C7: a table of two tests loaded a second time, one of them with a       *)
(* group.yaml that carries a test_id of its own and one with a name that   *)
(* the parser gives up on                                                  *)
C7_Reloaded ==
    /\ op = "reload" /\ Len(df) = 2
    /\ \E e \in VisibleDirs(disk) : disk[e] = FullDoc
    /\ \E e \in VisibleDirs(disk) : e.c.shape # "pattern"

(* C8: a numeric field that neither the directory name nor group.yaml      *)
(* supplies is missing in the merged row, never the number 0.              *)
C8_MissingNotZero ==
    Loaded =>
        \A i \in 1..Len(df) : \A e \in VisibleDirs(disk) :
            df[i].test_id = Str(EntryName(e)) =>
                \A k \in NumericKeys :
                    (NameValue(e.c, k) = None /\ FileValue(disk[e], k) = None)
                        => Cell(df[i], k) = None

-----------------------------------------------------------------------------
(* DataAnalysisWidget (modules/data_analysis.py).  all_data is the table    *)
(* load_all_test_data returned; filtered_data is held as its index (the    *)
(* labels of the rows of all_data it kept, in order) and its 'selected'    *)
(* column.  A column of a DataFrame built from dicts exists when some row  *)
(* has the key; a row without the key holds NaN there.                     *)

columns(t) == UNION {DOMAIN t[i] : i \in 1..Len(t)}

at(t, l, k) == Cell(t[l], k)

labels(index) == {index[i] : i \in 1..Len(index)}

full_index(t) == [i \in 1..Len(t) |-> i]

(* float(text) and int(text) of the text of a line edit: a run of digits,   *)
(* for float with an optional point; anything else raises ValueError       *)
ValueError == <<"ValueError">>

IsDigits(t) == \A i \in 1..Len(t) : t[i] \in Digits

int_text(t) ==
    IF t # <<>> /\ IsDigits(t) THEN Num(DigitsValue(t) * 1000) ELSE ValueError

(* a faulty variant of float(text), which reads a malformed text as 0 *)
float_text_or_zero(t) ==
    LET dot == FirstAt(t, <<".">>)
        ip  == IF dot = 0 THEN t ELSE SubSeq(t, 1, dot - 1)
        fp  == IF dot = 0 THEN <<>> ELSE SubSeq(t, dot + 1, Len(t))
    IN  IF IsDigits(ip) /\ IsDigits(fp) /\ Len(ip) + Len(fp) > 0
        THEN Num(float_of_match(t)) ELSE Num(0)

float_text(t) ==
    LET dot == FirstAt(t, <<".">>)
        ip  == IF dot = 0 THEN t ELSE SubSeq(t, 1, dot - 1)
        fp  == IF dot = 0 THEN <<>> ELSE SubSeq(t, dot + 1, Len(t))
    IN  IF IsDigits(ip) /\ IsDigits(fp) /\ Len(ip) + Len(fp) > 0
        THEN Num(float_of_match(t)) ELSE ValueError

(* the date filter: applied whenever the column exists; comparing a value   *)
(* that is not a str with the str of the control raises TypeError, which   *)
(* the except branch swallows, leaving the table as it was                 *)
date_filter(t, index, w) ==
    IF "date" \notin columns(t) THEN index
    ELSE IF \E l \in labels(index) : at(t, l, "date") # None /\ ~IsStr(at(t, l, "date"))
    THEN index
    ELSE select_seq(index, {l \in labels(index) :
                                /\ at(t, l, "date") # None
                                /\ str_leq(w.date_from, at(t, l, "date")[2])
                                /\ str_leq(at(t, l, "date")[2], w.date_to)})

All == <<"A", "l", "l">>

(* a combo box filter *)
equality_filter(t, index, column, text) ==
    IF text = All THEN index
    ELSE select_seq(index, {l \in labels(index) : at(t, l, column) = Str(text)})

(* a min/max filter: both texts non-empty, both converted (min_value and    *)
(* max_value are int or float of the texts), the column looked for, then   *)
(* the mask notna & >= min & <= max                                        *)
range_filter(t, index, column, min_text, max_text, min_value, max_value) ==
    IF min_text = <<>> \/ max_text = <<>> THEN index
    ELSE IF min_value = ValueError \/ max_value = ValueError
    THEN index                                   \* except ValueError
    ELSE IF column \notin columns(t) THEN index  \* the warning branch
    ELSE IF \E l \in labels(index) : IsStr(at(t, l, column))
    THEN index                                   \* TypeError, except Exception
    ELSE select_seq(index, {l \in labels(index) :
                                /\ at(t, l, column) # None
                                /\ at(t, l, column)[2] >= min_value[2]
                                /\ at(t, l, column)[2] <= max_value[2]})

(* the light conditions filter: the checked boxes, isin *)
light_conditions_filter(t, index, checked) ==
    IF checked = {} THEN index
    ELSE IF "light_conditions" \notin columns(t) THEN index
    ELSE select_seq(index, {l \in labels(index) :
                                at(t, l, "light_conditions") \in {Str(c) : c \in checked}})

(* the "backward compatibility" filter on group_es_mm, in force once        *)
(* reset_filters has set self.group_min and self.group_max: no look for    *)
(* the column, and only ValueError is caught, so a table without the       *)
(* column raises KeyError out of apply_filters.  (The same block exists    *)
(* for avg_velocity_fps, whose controls the model does not carry.)         *)
Done(index) == [index |-> index, error |-> "none"]
Raised(e) == [index |-> <<>>, error |-> e]

backward_compatibility_filter(t, index, w) ==
    IF ~w.group_min \/ w.group_es_min = <<>> \/ w.group_es_max = <<>> THEN Done(index)
    ELSE IF float_text(w.group_es_min) = ValueError \/ float_text(w.group_es_max) = ValueError
    THEN Done(index)
    ELSE IF "group_es_mm" \notin columns(t) THEN Raised("KeyError")
    ELSE Done(select_seq(index, {l \in labels(index) :
                /\ at(t, l, "group_es_mm") # None
                /\ at(t, l, "group_es_mm")[2] >= float_text(w.group_es_min)[2]
                /\ at(t, l, "group_es_mm")[2] <= float_text(w.group_es_max)[2]}))

(* the filters of apply_filters in the order of the code, on a copy of      *)
(* all_data.  The model carries one control of each kind: the date range,  *)
(* the calibre combo, the shots range (int), the group ES range (float)    *)
(* and the light conditions boxes.                                         *)
filter_rows(t, w) ==
    LET by_date    == date_filter(t, full_index(t), w)
        by_calibre == equality_filter(t, by_date, "calibre", w.calibre_combo)
        by_shots   == range_filter(t, by_calibre, "shots", w.shots_min, w.shots_max,
                                   int_text(w.shots_min), int_text(w.shots_max))
        by_group   == range_filter(t, by_shots, "group_es_mm",
                                   w.group_es_min, w.group_es_max,
                                   float_text(w.group_es_min), float_text(w.group_es_max))
        by_light   == light_conditions_filter(t, by_group, w.light_conditions)
    IN  backward_compatibility_filter(t, by_light, w)

(* a faulty variant of the 'selected' column, new rows unselected *)
unselected_column(t, index) ==
    [l \in labels(index) |->
        IF "selected" \in columns(t) THEN t[l]["selected"] ELSE FALSE]

(* the 'selected' column of a table cut from all_data.copy(): the column of *)
(* all_data if it has one, else filtered_data['selected'] = True.  The     *)
(* blocks of the shots and group ES filters that copy and restore the      *)
(* column work on the same copy of all_data and fall under the same test.  *)
selected_column(t, index) ==
    [l \in labels(index) |->
        IF "selected" \in columns(t) THEN t[l]["selected"] ELSE TRUE]

(* QDate.fromString(text, "yyyy-MM-dd").isValid(), the length of the month  *)
(* left aside                                                              *)
is_valid_date(s) ==
    /\ Len(s) = 10 /\ s[5] = "-" /\ s[8] = "-"
    /\ \A i \in {1, 2, 3, 4, 6, 7, 9, 10} : s[i] \in Digits
    /\ DigitsValue(SubSeq(s, 6, 7)) \in 1..12
    /\ DigitsValue(SubSeq(s, 9, 10)) \in 1..31

str_min(S) == CHOOSE a \in S : \A b \in S : str_leq(a, b)
str_max(S) == CHOOSE a \in S : \A b \in S : str_leq(b, a)

(* update_filter_ranges with the one registered filter, 'date': min and max *)
(* of the column go to the date controls; setDate ignores an invalid date  *)
update_filter_ranges(t, index, w) ==
    LET dates == {at(t, l, "date") : l \in labels(index)} \ {None}
        texts == {d[2] : d \in dates}
    IN  IF index = <<>> \/ "date" \notin columns(t) \/ dates = {} THEN w
        ELSE IF \E d \in dates : ~IsStr(d) THEN w       \* min() raises
        ELSE [w EXCEPT
                !.date_from = IF is_valid_date(str_min(texts)) THEN str_min(texts) ELSE @,
                !.date_to   = IF is_valid_date(str_max(texts)) THEN str_max(texts) ELSE @]

(* the demonstration table load_data puts in place of an empty one *)
sample_row(test_id, date, charge, es_mm, es_moa, radius, velocity, sd, es) ==
    [test_id |-> Str(test_id), date |-> Str(date), distance_m |-> Num(100000),
     calibre |-> Str(<<".", "2", "2", "3">>),
     rifle |-> Str(<<"T", "i", "k", "k", "a", " ", "T", "3", "X">>),
     bullet_brand |-> Str(<<"H", "o", "r", "n", "a", "d", "y">>),
     bullet_model |-> Str(<<"E", "L", "D", "-", "M">>),
     bullet_weight_gr |-> Num(75000),
     powder_brand |-> Str(<<"A", "D", "I">>),
     powder_model |-> Str(<<"2", "2", "0", "8">>),
     powder_charge_gr |-> Num(charge), group_es_mm |-> Num(es_mm),
     group_es_moa |-> Num(es_moa), mean_radius_mm |-> Num(radius),
     avg_velocity_fps |-> Num(velocity), sd_fps |-> Num(sd), es_fps |-> Num(es)]

sample_data ==
    << sample_row(<<"s", "a", "m", "p", "l", "e", "_", "t", "e", "s", "t", "_", "1">>,
                  <<"2", "0", "2", "5", "-", "0", "4", "-", "1", "5">>,
                  23500, 15200, 540, 5800, 2850500, 8500, 25000),
       sample_row(<<"s", "a", "m", "p", "l", "e", "_", "t", "e", "s", "t", "_", "2">>,
                  <<"2", "0", "2", "5", "-", "0", "4", "-", "1", "6">>,
                  24000, 12800, 450, 4900, 2875200, 7200, 22500) >>

(* load_data up to the table: the corpus, or the demonstration table *)
loaded_table(r, d, listing) ==
    IF load_all_test_data(r, d, listing) = <<>> THEN sample_data
    ELSE load_all_test_data(r, d, listing)

(* QDate.currentDate() and the date a month before, on the day of the run *)
Today    == <<"2", "0", "2", "5", "-", "0", "6", "-", "0", "1">>
MonthAgo == <<"2", "0", "2", "5", "-", "0", "5", "-", "0", "1">>

(* the controls as setup_ui leaves them *)
initial_ui ==
    [calibre_combo |-> All, date_from |-> MonthAgo, date_to |-> Today,
     shots_min |-> <<>>, shots_max |-> <<>>,
     group_es_min |-> <<>>, group_es_max |-> <<>>,
     light_conditions |-> {}, group_min |-> FALSE]

(* the controls after load_data: populate_filters refills the combo, which  *)
(* shows "All" again, and update_filter_ranges moves the dates             *)
ui_after_load(t, w) ==
    update_filter_ranges(t, full_index(t), [w EXCEPT !.calibre_combo = All])

(* the controls after the clears of reset_filters *)
ui_after_reset(w) ==
    [initial_ui EXCEPT !.group_min = TRUE]

-----------------------------------------------------------------------------
(* What the user can put into the controls, and the tests directories the   *)
(* widget is run over.                                                     *)

Text(a, b) == <<a, b>>

ShotsTexts   == {Text(<<>>, <<>>), Text(<<"5">>, <<"9">>), Text(<<"x">>, <<"9">>)}
GroupEsTexts == {Text(<<>>, <<>>),
                 Text(<<"1", "2", ".", "9">>, <<"1", "5", ".", "2">>),
                 Text(<<"1", "2", ".", "9">>, <<"1", "5", ",", "2">>)}
DateRanges   == {Text(<<"2", "0", "2", "5", "-", "0", "1", "-", "0", "1">>,
                      <<"2", "0", "2", "5", "-", "1", "2", "-", "3", "1">>)}
LightChoices == {{}, {Clear}}

CalibreChoices(t) ==
    {All} \cup {at(t, l, "calibre")[2] : l \in {i \in 1..Len(t) : IsStr(at(t, i, "calibre"))}}

MeasuredTests == (GoodDir :> FullDoc) @@ (OtherDir :> SparseDoc)
NewTests      == (GoodDir :> NoFile) @@ (BadNameDir :> NoFile)
Corpora       == {MeasuredTests, NewTests, NoEntries}

-----------------------------------------------------------------------------
(* Specification of the Data Analysis view: the widget is constructed       *)
(* (setup_ui, then load_data), after which the user edits the controls,    *)
(* clicks the check boxes of the table and the buttons, and the tab is     *)
(* refreshed, in any order.                                               *)

NoHistory == dropped' = {} /\ readmitted' = {}

(* what load_all_test_data can return over each tests directory, with the   *)
(* demonstration table in place of an empty one                            *)
LoadedCorpora ==
    UNION {{[disk |-> d, all_data |-> loaded_table("ok", d, listing)] :
                listing \in Listings(d)} : d \in Corpora}

load_data(w) ==
    \E c \in LoadedCorpora :
        /\ disk' = c.disk
        /\ all_data' = c.all_data
        /\ filtered_index' = full_index(all_data')
        /\ selected' = selected_column(all_data', filtered_index')
        /\ ui' = ui_after_load(all_data', w)
        /\ error' = "none"
        /\ NoHistory

Init ==
    /\ ParkedParser /\ ParkedConverter /\ ParkedView /\ ParkedSettings /\ ParkedFilter /\ ParkedProfiles /\ ParkedForm
    /\ root = "ok" /\ df = <<>> /\ op = "load_data"
    /\ \E c \in LoadedCorpora :
        /\ disk = c.disk
        /\ all_data = c.all_data
        /\ filtered_index = full_index(all_data)
        /\ selected = selected_column(all_data, filtered_index)
        /\ ui = ui_after_load(all_data, initial_ui)
    /\ error = "none" /\ dropped = {} /\ readmitted = {}

(* refresh: load_data over whatever the tests directory holds by then *)
Refresh ==
    /\ load_data(ui)
    /\ op' = "load_data"
    /\ UNCHANGED <<form_vars, profile_vars, filter_vars, settings_vars, view_vars, converter_vars, parser_vars, root, df>>

(* the user edits a control; no code of the widget runs *)
Touched ==
    /\ op' = "touched"
    /\ UNCHANGED <<form_vars, profile_vars, filter_vars, settings_vars, view_vars, converter_vars, parser_vars, root, disk, df, all_data, error, dropped, readmitted>>

EditCalibre ==
    /\ \E c \in CalibreChoices(all_data) : ui' = [ui EXCEPT !.calibre_combo = c]
    /\ UNCHANGED <<filtered_index, selected>> /\ Touched

EditDates ==
    /\ \E p \in DateRanges : ui' = [ui EXCEPT !.date_from = p[1], !.date_to = p[2]]
    /\ UNCHANGED <<filtered_index, selected>> /\ Touched

EditShots ==
    /\ \E p \in ShotsTexts : ui' = [ui EXCEPT !.shots_min = p[1], !.shots_max = p[2]]
    /\ UNCHANGED <<filtered_index, selected>> /\ Touched

EditGroupEs ==
    /\ \E p \in GroupEsTexts :
          ui' = [ui EXCEPT !.group_es_min = p[1], !.group_es_max = p[2]]
    /\ UNCHANGED <<filtered_index, selected>> /\ Touched

EditLightConditions ==
    /\ \E s \in LightChoices : ui' = [ui EXCEPT !.light_conditions = s]
    /\ UNCHANGED <<filtered_index, selected>> /\ Touched

(* TestDataModel.setData on the check box of a row of the table *)
setData ==
    /\ \E row \in 1..Len(filtered_index) :
          selected' = [selected EXCEPT ![filtered_index[row]] = ~@]
    /\ UNCHANGED <<filtered_index, ui>> /\ Touched

select_all_tests ==
    /\ selected' = [l \in DOMAIN selected |-> TRUE]
    /\ UNCHANGED <<filtered_index, ui>> /\ Touched

deselect_all_tests ==
    /\ selected' = [l \in DOMAIN selected |-> FALSE]
    /\ UNCHANGED <<filtered_index, ui>> /\ Touched

toggle_test_selection ==
    /\ selected' = [l \in DOMAIN selected |-> ~selected[l]]
    /\ UNCHANGED <<filtered_index, ui>> /\ Touched

(* apply_filters with the controls holding w: the new table and its         *)
(* 'selected' column, or nothing but the exception when one escapes        *)
apply_filters(w) ==
    LET result == filter_rows(all_data, w)
    IN  IF result.error # "none"
        THEN /\ error' = result.error
             /\ UNCHANGED <<filtered_index, selected, dropped, readmitted>>
        ELSE /\ error' = "none"
             /\ filtered_index' = result.index
             /\ selected' = selected_column(all_data, result.index)
             /\ dropped' = (dropped \ labels(result.index))
                             \cup {l \in labels(filtered_index) \ labels(result.index) :
                                      ~selected[l]}
             /\ readmitted' = dropped \cap labels(result.index)

ApplyFilters ==
    /\ apply_filters(ui)
    /\ op' = "apply_filters"
    /\ UNCHANGED <<form_vars, profile_vars, filter_vars, settings_vars, view_vars, converter_vars, parser_vars, root, disk, df, all_data, ui>>

ResetFilters ==
    /\ ui' = ui_after_reset(ui)
    /\ apply_filters(ui')
    /\ op' = "reset_filters"
    /\ UNCHANGED <<form_vars, profile_vars, filter_vars, settings_vars, view_vars, converter_vars, parser_vars, root, disk, df, all_data>>

Next ==
    \/ Refresh
    \/ EditCalibre \/ EditDates \/ EditShots \/ EditGroupEs \/ EditLightConditions
    \/ setData \/ select_all_tests \/ deselect_all_tests \/ toggle_test_selection
    \/ ApplyFilters
    \/ ResetFilters

Spec == Init /\ [][Next]_vars

-----------------------------------------------------------------------------
(* The filter predicates, read off the controls and the rows themselves.    *)

Applied == op = "apply_filters" /\ error = "none"

RangeFields == {"shots", "group_es_mm"}

MinText(w, f) == IF f = "shots" THEN w.shots_min ELSE w.group_es_min
MaxText(w, f) == IF f = "shots" THEN w.shots_max ELSE w.group_es_max

(* the text is a number: digits, with at most one point among them *)
Parses(text) ==
    /\ \A i \in 1..Len(text) : text[i] \in Digits \cup {"."}
    /\ \E i \in 1..Len(text) : text[i] \in Digits
    /\ Cardinality({i \in 1..Len(text) : text[i] = "."}) <= 1

(* both bounds of the range on f are given and are numbers *)
RangeActive(w, f) ==
    /\ MinText(w, f) # <<>> /\ MaxText(w, f) # <<>>
    /\ Parses(MinText(w, f)) /\ Parses(MaxText(w, f))

(* a bound of the range on f is given and is not a number *)
RangeMalformed(w, f) ==
    \/ MinText(w, f) # <<>> /\ ~Parses(MinText(w, f))
    \/ MaxText(w, f) # <<>> /\ ~Parses(MaxText(w, f))

InRange(row, w, f) ==
    /\ Cell(row, f) # None /\ IsNum(Cell(row, f))
    /\ float_text(MinText(w, f))[2] <= Cell(row, f)[2]
    /\ Cell(row, f)[2] <= float_text(MaxText(w, f))[2]

InDates(row, w) ==
    /\ IsStr(Cell(row, "date"))
    /\ str_leq(w.date_from, Cell(row, "date")[2])
    /\ str_leq(Cell(row, "date")[2], w.date_to)

IsCalibre(row, w) == w.calibre_combo = All \/ Cell(row, "calibre") = Str(w.calibre_combo)

InLight(row, w) ==
    w.light_conditions = {} \/ \E c \in w.light_conditions : Cell(row, "light_conditions") = Str(c)

Satisfies(row, w) ==
    /\ InDates(row, w) /\ IsCalibre(row, w) /\ InLight(row, w)
    /\ \A f \in RangeFields : RangeActive(w, f) => InRange(row, w, f)

(* the same, a predicate on a field no row of the table has left aside *)
SatisfiesWhereColumn(t, row, w) ==
    /\ InDates(row, w) /\ IsCalibre(row, w)
    /\ "light_conditions" \in columns(t) => InLight(row, w)
    /\ \A f \in RangeFields \cap columns(t) : RangeActive(w, f) => InRange(row, w, f)

(* the controls with the range on f emptied *)
WithoutRange(w, f) ==
    IF f = "shots" THEN [w EXCEPT !.shots_min = <<>>, !.shots_max = <<>>]
    ELSE [w EXCEPT !.group_es_min = <<>>, !.group_es_max = <<>>]

(* C1: a row that is unselected before an apply_filters call and still in   *)
(* the filtered table after it is still unselected (and a selected one     *)
(* still selected): the flag is carried over by row identity.              *)
C1_SelectionCarriedOver ==
    [][ (op' = "apply_filters" /\ error' = "none") =>
            \A l \in labels(filtered_index) \cap labels(filtered_index') :
                selected'[l] = selected[l] ]_vars

(* C2: a row that apply_filters had removed from the filtered table and    *)
(* that a later apply_filters lets back in has selected = true, whatever   *)
(* its flag was when it was filtered out.                                  *)
C2_ReadmittedSelected ==
    [][ (op' \in {"apply_filters", "reset_filters"} /\ error' = "none") =>
            \A l \in labels(filtered_index') \ labels(filtered_index) :
                selected'[l] = TRUE ]_vars

(* C2: apply_filters has just let back a row that was unselected when it   *)
(* was filtered out, and the row is selected                               *)
C2_StaleRowIsBack ==
    /\ op = "apply_filters" /\ error = "none"
    /\ readmitted # {}
    /\ \A l \in readmitted : l \in labels(filtered_index) /\ selected[l]

(* C3: a row passes a range predicate only if its field is non-missing and *)
(* min <= value <= max: after apply_filters with the range on a field      *)
(* active, every row of the table has the field, within the bounds.        *)
C3_RangeExcludesMissing ==
    Applied =>
        \A f \in RangeFields : RangeActive(ui, f) =>
            \A l \in labels(filtered_index) : InRange(all_data[l], ui, f)

(* C3, for the fields some row of the table has: the rows kept are within  *)
(* the bounds, and a row that satisfies every predicate is kept            *)
C3_RangeWhereColumn ==
    Applied =>
        \A f \in RangeFields \cap columns(all_data) : RangeActive(ui, f) =>
            /\ \A l \in labels(filtered_index) : InRange(all_data[l], ui, f)
            /\ \A l \in 1..Len(all_data) :
                  (InRange(all_data[l], ui, f) /\ Satisfies(all_data[l], WithoutRange(ui, f)))
                      => l \in labels(filtered_index)

(* C4: the table apply_filters produces is exactly the rows of all_data    *)
(* that satisfy every active predicate, in the order of all_data; "All"    *)
(* in the combo and no box checked exclude no row.                         *)
C4_ExactlyTheMatchingRows ==
    Applied =>
        filtered_index =
            select_seq(full_index(all_data),
                       {l \in 1..Len(all_data) : Satisfies(all_data[l], ui)})

(* C4, a predicate on a field no row of the table has left aside *)
C4_MatchingRowsWhereColumn ==
    Applied =>
        filtered_index =
            select_seq(full_index(all_data),
                       {l \in 1..Len(all_data) :
                            SatisfiesWhereColumn(all_data, all_data[l], ui)})

-----------------------------------------------------------------------------
(* The flat fields of load_group_data and the nested paths of group.yaml    *)
(* they are read from.                                                     *)

GroupPath ==
    [group_es_mm |-> <<"group", "group_es_mm">>,
     group_es_moa |-> <<"group", "group_es_moa">>,
     mean_radius_mm |-> <<"group", "mean_radius_mm">>,
     shots |-> <<"group", "shots">>,
     avg_velocity_fps |-> <<"chrono", "avg_velocity_fps">>,
     sd_fps |-> <<"chrono", "sd_fps">>,
     temperature_c |-> <<"environment", "temperature_c">>,
     light_conditions |-> <<"environment", "weather">>,
     barrel_length_in |-> <<"platform", "barrel_length_in">>,
     bullet_lot |-> <<"ammo", "bullet", "lot">>,
     primer_brand |-> <<"ammo", "primer", "brand">>,
     primer_model |-> <<"ammo", "primer", "model">>]

FlatPath == YamlPath @@ GroupPath

FlatFields == DOMAIN no_file_data \cup DOMAIN FlatPath

IsMappingDoc(doc) == doc.kind = "mapping"

(* C11: when group.yaml is absent, cannot be read or parsed, or is not a    *)
(* mapping, load_group_data returns a record with every field missing,     *)
(* never 0, and the row of the directory gets no field from it.            *)
C11_NoFileRecordAllMissing ==
    Loaded =>
        \A e \in VisibleDirs(disk) : ~IsMappingDoc(disk[e]) =>
            /\ \A k \in FlatFields : Cell(load_group_data(disk[e]), k) = None
            /\ \A k \in DOMAIN load_group_data(disk[e]) : load_group_data(disk[e])[k] = None
            /\ \A i \in 1..Len(df) : df[i].test_id = Str(EntryName(e)) =>
                  df[i] = extract_test_info_from_path(EntryName(e))

(* C11: a table loaded over a directory whose group.yaml cannot be parsed   *)
(* and one whose group.yaml is not a mapping                               *)
C11_UnusableFilesLoaded ==
    /\ Loaded /\ Len(df) = 2
    /\ \E e \in VisibleDirs(disk) : disk[e] = Unreadable
    /\ \E e \in VisibleDirs(disk) : disk[e] = NotMapping

(* every nested group the document has is a mapping *)
GroupsAreMappings(doc) ==
    /\ \A g \in {"group", "chrono", "environment", "platform", "ammo"} :
          g \in DOMAIN doc.data => IsMap(doc.data[g])
    /\ "ammo" \in DOMAIN doc.data =>
          \A g \in {"bullet", "powder", "case", "primer"} :
              g \in DOMAIN doc.data["ammo"][2] => IsMap(doc.data["ammo"][2][g])

(* C12: when group.yaml is a mapping, each flat field load_group_data      *)
(* returns is the value at its nested path, missing exactly when the path  *)
(* is absent or null; a nested group that is null or not a mapping makes   *)
(* only its own fields missing.                                            *)
C12_FlatFieldIsNestedValue ==
    Loaded =>
        \A e \in VisibleDirs(disk) : IsMappingDoc(disk[e]) =>
            \A k \in DOMAIN FlatPath :
                Cell(load_group_data(disk[e]), k) = Lookup(disk[e].data, FlatPath[k])

(* C12, for the documents whose nested groups are all mappings *)
C12_FlatWhereGroupsAreMappings ==
    Loaded =>
        \A e \in VisibleDirs(disk) :
            (IsMappingDoc(disk[e]) /\ GroupsAreMappings(disk[e])) =>
                \A k \in DOMAIN FlatPath :
                    Cell(load_group_data(disk[e]), k) = Lookup(disk[e].data, FlatPath[k])
-----------------------------------------------------------------------------
(* The unit converter: ViewTestWidget._mm_to_moa (modules/view_test.py).    *)
(* The quotient of two floats is held exactly, as a fraction in lowest      *)
(* terms <<"float", n, d>> with d > 0, in MOA.                              *)

TypeError == <<"TypeError">>
ZeroDivisionError == <<"ZeroDivisionError">>

Abs(n) == IF n < 0 THEN -n ELSE n

RECURSIVE GCD(_, _)
GCD(a, b) == IF b = 0 THEN a ELSE GCD(b, a % b)

Float(n, d) == <<"float", n \div GCD(Abs(n), d), d \div GCD(Abs(n), d)>>
IsFloat(v) == Len(v) = 3 /\ v[1] = "float"

(* float(x) of a number, of a text, and of anything else *)
float(v) ==
    IF IsNum(v) THEN v
    ELSE IF IsStr(v) THEN float_text(v[2])
    ELSE TypeError

(* a / b of two floats held in thousandths *)
truediv(a, b) == IF b[2] = 0 THEN ZeroDivisionError ELSE Float(a[2], b[2])

(* the body without the test distance_m <= 0 *)
mm_to_moa_body_any_distance(mm, d) ==
    IF mm = None \/ d = None THEN None
    ELSE IF ~IsNum(d) THEN TypeError
    ELSE LET m == float(mm)
             f == float(d)
         IN  IF ~IsNum(m) THEN m
             ELSE IF ~IsNum(f) THEN f
             ELSE IF f[2] = 0 THEN ZeroDivisionError
             ELSE Float((IF f[2] < 0 THEN -1 ELSE 1) * m[2] * 3438, Abs(f[2]) * 1000)

(* the body of the try block: the value returned or the exception raised *)
mm_to_moa_body(mm, d) ==
    IF mm = None \/ d = None THEN None
    ELSE IF ~IsNum(d) THEN TypeError            \* str <= int
    ELSE IF d[2] <= 0 THEN None
    ELSE LET m == float(mm)
             f == float(d)
         IN  IF ~IsNum(m) THEN m
             ELSE IF ~IsNum(f) THEN f
             ELSE truediv(Num(m[2] * 3438), Num(f[2] * 1000))

(* except (ValueError, TypeError, ZeroDivisionError): return None *)
mm_to_moa(mm, d) ==
    LET r == mm_to_moa_body(mm, d)
    IN  IF r \in {ValueError, TypeError, ZeroDivisionError} THEN None ELSE r

(* the values the converter is called with *)
MmValues ==
    {None, Num(-5000), Num(0), Num(9000), Num(15200), Num(100000),
     Str(<<"1", "2", ".", "5">>), Str(<<"a", "b", "c">>)}

DistanceValues ==
    {None, Num(-100000), Num(0), Num(91440), Num(100000), Num(300000),
     Str(<<"1", "0", "0">>)}

NotCalled == <<"NotCalled">>

ConverterInit ==
    /\ ParkedParser /\ ParkedWidget /\ ParkedView /\ ParkedSettings /\ ParkedFilter /\ ParkedProfiles /\ ParkedForm
    /\ root = "ok" /\ disk = NoEntries /\ df = <<>> /\ op = "init"
    /\ mm_value \in MmValues
    /\ distance_m \in DistanceValues
    /\ moa_value = NotCalled

MmToMoa ==
    /\ op = "init"
    /\ moa_value' = mm_to_moa(mm_value, distance_m)
    /\ op' = "mm_to_moa"
    /\ UNCHANGED <<form_vars, profile_vars, filter_vars, settings_vars, mm_value, distance_m, root, disk, df, parser_vars, widget_vars, view_vars>>

ConverterNext == MmToMoa

SpecConverter == ConverterInit /\ [][ConverterNext]_vars

(* C14: mm_to_moa never ends in an exception; it returns None when mm is    *)
(* missing, the distance is missing or the distance is not above zero; for  *)
(* a number and a distance above zero it returns (mm * 3438) /              *)
(* (distance_m * 1000), here as the fraction in lowest terms.               *)
IsFormula(v, mm, d) ==
    /\ IsFloat(v) /\ v[3] > 0
    /\ LET k == (d[2] * 1000) \div v[3]
       IN  v[3] * k = d[2] * 1000 /\ v[2] * k = mm[2] * 3438

C14_MmToMoa ==
    op = "mm_to_moa" =>
        /\ moa_value \notin {ValueError, TypeError, ZeroDivisionError}
        /\ (mm_value = None \/ distance_m = None
              \/ (IsNum(distance_m) /\ distance_m[2] <= 0)) => moa_value = None
        /\ (IsNum(mm_value) /\ IsNum(distance_m) /\ distance_m[2] > 0) =>
              IsFormula(moa_value, mm_value, distance_m)

(* C14 witness: 100 mm at 300 m has been converted, to 573/500 MOA *)
C14_Converted ==
    /\ op = "mm_to_moa"
    /\ mm_value = Num(100000) /\ distance_m = Num(300000)
    /\ moa_value = <<"float", 573, 500>>
-----------------------------------------------------------------------------
(* C13: in every row of the table load_all_test_data returns, for each of   *)
(* group_es, mean_radius, group_es_x, group_es_y, poi_x and poi_y: when the *)
(* row has the mm value, group.yaml has no MOA value and the row's          *)
(* distance_m is above zero, the row's MOA field is                        *)
(* mm_to_moa(mm, distance_m).                                               *)
MoaOf ==
    [group_es_mm |-> "group_es_moa", mean_radius_mm |-> "mean_radius_moa",
     group_es_x_mm |-> "group_es_x_moa", group_es_y_mm |-> "group_es_y_moa",
     poi_x_mm |-> "poi_x_moa", poi_y_mm |-> "poi_y_moa"]

MoaPath(k) == <<"group", MoaOf[k]>>

C13_MoaFilledIn ==
    Loaded =>
        \A e \in VisibleDirs(disk) : \A i \in 1..Len(df) : \A k \in DOMAIN MoaOf :
            (/\ df[i].test_id = Str(EntryName(e))
             /\ IsNum(Cell(df[i], k))
             /\ IsMappingDoc(disk[e]) => Lookup(disk[e].data, MoaPath(k)) = None
             /\ IsNum(Cell(df[i], "distance_m"))
             /\ Cell(df[i], "distance_m")[2] > 0)
            => Cell(df[i], MoaOf[k]) = mm_to_moa(Cell(df[i], k), Cell(df[i], "distance_m"))
-----------------------------------------------------------------------------
(* C15: load_all_test_data returns a table (it raises nothing) that has     *)
(* exactly one row for every directory of the tests directory that is not  *)
(* hidden, whatever the order of the listing and whatever the other        *)
(* directories hold: a directory whose name does not parse or whose        *)
(* group.yaml cannot be used does not stop the scan, and the row of every  *)
(* directory is the merge of its own name and its own group.yaml.          *)
RowsOf(t, e) == {i \in 1..Len(t) : t[i].test_id = Str(EntryName(e))}

C15_RowForEveryDirectory ==
    (Loaded /\ root = "ok") =>
        /\ Len(df) = Cardinality(VisibleDirs(disk))
        /\ \A e \in VisibleDirs(disk) :
              /\ Cardinality(RowsOf(df, e)) = 1
              /\ \A i \in RowsOf(df, e) : df[i] = merged_row(disk, e)

(* C15 witness: a directory with a good name and a good group.yaml has its  *)
(* row next to a directory whose name does not parse and whose group.yaml  *)
(* cannot be read                                                          *)
C15_CorruptBesideValid ==
    /\ Loaded /\ Len(df) = 2
    /\ GoodDir \in DOMAIN disk /\ disk[GoodDir] = FullDoc
    /\ BadNameDir \in DOMAIN disk /\ disk[BadNameDir] = Unreadable
    /\ RowsOf(df, GoodDir) # {} /\ RowsOf(df, BadNameDir) # {}
-----------------------------------------------------------------------------
(* C16: the table load_all_test_data returns holds the merged records, each *)
(* once, in ascending order of (date, powder_charge_gr): of two consecutive *)
(* rows the first has the smaller date, or the same date and a powder      *)
(* charge that is not larger.  Dates are compared as pandas compares the   *)
(* strings of the column.                                                  *)
RowDate(row) == Cell(row, "date")
RowCharge(row) == Cell(row, "powder_charge_gr")

InOrder(r1, r2) ==
    /\ IsStr(RowDate(r1)) /\ IsStr(RowDate(r2))
    /\ IsNum(RowCharge(r1)) /\ IsNum(RowCharge(r2))
    /\ \/ str_less(RowDate(r1)[2], RowDate(r2)[2])
       \/ RowDate(r1) = RowDate(r2) /\ RowCharge(r1)[2] <= RowCharge(r2)[2]

-----------------------------------------------------------------------------
(* C17: in the table load_all_test_data returns, a record whose date comes  *)
(* neither from the directory name nor from group.yaml stands before every *)
(* record that has a date.                                                 *)
Undated(d, e) ==
    /\ extract_test_info_from_path(EntryName(e)).date = Str(Unknown)
    /\ Cell(load_group_data(d[e]), "date") = None

C17_UndatedFirst ==
    Loaded =>
        \A e1, e2 \in VisibleDirs(disk) : \A i \in RowsOf(df, e1) : \A j \in RowsOf(df, e2) :
            (Undated(disk, e1) /\ ~Undated(disk, e2)) => i < j
-----------------------------------------------------------------------------
(* C18: when the tests directory does not exist or cannot be listed,        *)
(* load_all_test_data returns the empty table.                             *)
C18_EmptyWithoutRoot ==
    (Loaded /\ root \in {"missing", "unlistable"}) => df = <<>>

(* C18 witness: the tests directory holds a test but cannot be listed, and  *)
(* the empty table has been returned                                       *)
C18_UnlistableLoaded ==
    /\ Loaded /\ root = "unlistable" /\ VisibleDirs(disk) # {} /\ df = <<>>
-----------------------------------------------------------------------------
(* C19: after update_filter_ranges over a table (it runs at the end of      *)
(* load_data, over the whole table, with 'date' the one registered field), *)
(* the two date controls hold the minimum and the maximum of the dates the *)
(* rows have; a row whose date is missing or 'Unknown' has none.           *)
DatesOf(t) ==
    {Cell(t[i], "date")[2] : i \in {j \in 1..Len(t) : IsStr(Cell(t[j], "date"))}}
       \ {Unknown}

C19_RangeIsMinAndMax ==
    (op = "load_data" /\ DatesOf(all_data) # {}) =>
        /\ ui.date_from = str_min(DatesOf(all_data))
        /\ ui.date_to = str_max(DatesOf(all_data))

(* C19, where every row of the table has a date that is a calendar date *)
C19_RangeWhereAllDated ==
    (op = "load_data" /\ \A i \in 1..Len(all_data) :
                            /\ IsStr(Cell(all_data[i], "date"))
                            /\ is_valid_date(Cell(all_data[i], "date")[2])) =>
        /\ ui.date_from = str_min(DatesOf(all_data))
        /\ ui.date_to = str_max(DatesOf(all_data))
-----------------------------------------------------------------------------
(* The View Test tab beside the Data Analysis tab (modules/view_test.py and *)
(* main.py): a test is selected in the table and deleted; directories also *)
(* vanish from the tests directory behind the program's back; either tab   *)
(* is refreshed.  No filter of the View Test tab is set, so its            *)
(* filtered_data is its all_data.                                          *)

Remove(d, e) == [x \in DOMAIN d \ {e} |-> d[x]]

(* the tests directories met: those of Corpora and what deleting, in whole  *)
(* or in part, leaves of them                                              *)
SubCorpora ==
    UNION {{[x \in S |-> IF x \in F THEN NoFile ELSE d[x]] :
               S \in SUBSET DOMAIN d, F \in SUBSET DOMAIN d} : d \in Corpora}

(* load_all_test_data(self.tests_dir) over each of them, per listing order *)
TablesOf == [d \in SubCorpora |-> {load_all_test_data("ok", d, l) : l \in Listings(d)}]

(* populate_test_ids: the tables View Test can hold after it *)
populate_test_ids(d) == TablesOf[d]

(* load_data up to the table: the tables Data Analysis can hold after it *)
loaded_tables(d) == {IF t = <<>> THEN sample_data ELSE t : t \in TablesOf[d]}

(* the testDeleted signal with nothing connected to it *)
on_testDeleted_unconnected(old, d) == {old}

(* testDeleted.connect(data_analysis_widget.refresh): the tables Data        *)
(* Analysis can hold after the signal                                      *)
on_testDeleted(old, d) == loaded_tables(d)

(* DataAnalysisWidget.load_data, once the table is known *)
AnalysisLoaded(t) ==
    /\ all_data' = t
    /\ filtered_index' = full_index(t)
    /\ selected' = selected_column(t, full_index(t))
    /\ ui' = ui_after_load(t, ui)
    /\ error' = "none"
    /\ NoHistory

DirOf(d, test_id) == {e \in VisibleDirs(d) : Str(EntryName(e)) = test_id}

ViewInit ==
    /\ ParkedParser /\ ParkedConverter /\ ParkedSettings /\ ParkedFilter /\ ParkedProfiles /\ ParkedForm
    /\ root = "ok" /\ df = <<>> /\ op = "init"
    /\ disk \in Corpora
    /\ view_all_data \in populate_test_ids(disk)
    /\ current_test_id = None /\ deleted_test = None
    /\ all_data \in loaded_tables(disk)
    /\ filtered_index = full_index(all_data)
    /\ selected = selected_column(all_data, filtered_index)
    /\ ui = ui_after_load(all_data, initial_ui)
    /\ error = "none" /\ dropped = {} /\ readmitted = {}

(* on_table_selection_changed: the test of the clicked row becomes current  *)
(* when its group.yaml can be shown; clear_details leaves none current     *)
SelectTest ==
    /\ \E i \in 1..Len(view_all_data) :
          LET test_id == view_all_data[i].test_id
          IN  \/ /\ \E e \in DirOf(disk, test_id) : IsMappingDoc(disk[e])
                 /\ current_test_id' = test_id
              \/ current_test_id' = None
    /\ op' = "select"
    /\ UNCHANGED <<form_vars, profile_vars, filter_vars, settings_vars, view_all_data, deleted_test, disk, root, df, all_data,
                   filtered_index, selected, ui, error, dropped, readmitted,
                   parser_vars, converter_vars>>

(* delete_test, answered No *)
DeleteDeclined ==
    /\ current_test_id # None
    /\ op' = "delete_test:declined"
    /\ UNCHANGED <<form_vars, profile_vars, filter_vars, settings_vars, view_vars, disk, root, df, widget_vars, parser_vars, converter_vars>>

(* delete_test, answered Yes, and os.listdir, os.unlink or os.rmdir raises:  *)
(* nothing is gone, or the files are gone and the directory is left        *)
DeleteFailed ==
    /\ current_test_id # None
    /\ \/ UNCHANGED disk
       \/ \E e \in DirOf(disk, current_test_id) : disk' = [disk EXCEPT ![e] = NoFile]
    /\ op' = "delete_test:failed"
    /\ UNCHANGED <<form_vars, profile_vars, filter_vars, settings_vars, view_vars, root, df, widget_vars, parser_vars, converter_vars>>

(* delete_test, answered Yes, and the directory is removed: clear_details,   *)
(* populate_test_ids, then testDeleted                                     *)
DeleteTest ==
    /\ current_test_id # None
    /\ \E e \in DirOf(disk, current_test_id) :
          /\ disk' = Remove(disk, e)
          /\ view_all_data' \in populate_test_ids(disk')
          /\ \E t \in on_testDeleted(all_data, disk') : AnalysisLoaded(t)
    /\ deleted_test' = current_test_id
    /\ current_test_id' = None
    /\ op' = "delete_test:deleted"
    /\ UNCHANGED <<form_vars, profile_vars, filter_vars, settings_vars, root, df, parser_vars, converter_vars>>

(* a directory is removed from outside the program *)
Vanish ==
    /\ \E e \in DOMAIN disk : disk' = Remove(disk, e)
    /\ op' = "vanish"
    /\ UNCHANGED <<form_vars, profile_vars, filter_vars, settings_vars, view_vars, root, df, widget_vars, parser_vars, converter_vars>>

(* ViewTestWidget.refresh *)
RefreshView ==
    /\ view_all_data' \in populate_test_ids(disk)
    /\ op' = "refresh_view"
    /\ UNCHANGED <<form_vars, profile_vars, filter_vars, settings_vars, current_test_id, deleted_test, disk, root, df, widget_vars,
                   parser_vars, converter_vars>>

(* DataAnalysisWidget.refresh *)
RefreshAnalysis ==
    /\ \E t \in loaded_tables(disk) : AnalysisLoaded(t)
    /\ op' = "refresh_analysis"
    /\ UNCHANGED <<form_vars, profile_vars, filter_vars, settings_vars, view_vars, disk, root, df, parser_vars, converter_vars>>

ViewNext ==
    \/ SelectTest
    \/ DeleteDeclined
    \/ DeleteFailed
    \/ DeleteTest
    \/ Vanish
    \/ RefreshView
    \/ RefreshAnalysis

SpecView == ViewInit /\ [][ViewNext]_vars

(* C20: once delete_test has removed test T, T's test_id is in neither the  *)
(* View Test table nor the Data Analysis table; and a table that has just  *)
(* been rebuilt holds no test whose directory is not in the tests          *)
(* directory.                                                              *)
OnDisk(t) == \A i \in 1..Len(t) : DirOf(disk, t[i].test_id) # {}

C20_DeletedTestIsGone ==
    /\ op = "delete_test:deleted" =>
          /\ deleted_test \notin TestIds(view_all_data)
          /\ deleted_test \notin TestIds(all_data)
          /\ OnDisk(view_all_data)
          /\ all_data = sample_data \/ OnDisk(all_data)
    /\ op = "refresh_view" => OnDisk(view_all_data)
    /\ op = "refresh_analysis" => (all_data = sample_data \/ OnDisk(all_data))

(* C20 witness: a test has been deleted and another one is left in both     *)
(* tables                                                                  *)
C20_DeletedOneOfTwo ==
    /\ op = "delete_test:deleted" /\ deleted_test # None
    /\ Len(view_all_data) = 1 /\ Len(all_data) = 1
    /\ view_all_data[1].test_id # deleted_test
-----------------------------------------------------------------------------
(* The settings: SettingsManager (utils/settings_manager.py).  settings is *)
(* the dict {'active_database': label, 'databases': [{'label', 'path'}]}; *)
(* a method is modelled by the settings it leaves and the value it        *)
(* returns.                                                                *)

Labels == {"Default", "Range", "Club"}

(* directories: two that exist and can be written, and one that cannot *)
DefaultDir == "tests"
ValidDirs  == {"tests", "range_tests"}
Dirs       == ValidDirs \cup {"gone"}

Database(label, path) == [label |-> label, path |-> path]
Settings(active, databases) == [active_database |-> active, databases |-> databases]
Return(s, value) == [settings |-> s, returned |-> value]

default_settings == Settings("Default", <<Database("Default", DefaultDir)>>)

LabelsOf(s) == {s.databases[i].label : i \in 1..Len(s.databases)}
Found(s, label) == {i \in 1..Len(s.databases) : s.databases[i].label = label}
First(S) == CHOOSE i \in S : \A j \in S : i <= j

(* os.path.isdir(path) and os.access(path, os.W_OK) *)
is_valid_dir(path) == path \in ValidDirs

get_tests_directory(s) ==
    IF Found(s, s.active_database) # {}
    THEN s.databases[First(Found(s, s.active_database))].path
    ELSE IF s.databases # <<>> THEN s.databases[1].path
    ELSE DefaultDir

set_active_database(s, label) ==
    IF Found(s, label) # {} THEN Return([s EXCEPT !.active_database = label], TRUE)
    ELSE Return(s, FALSE)

(* a faulty variant: the label is not looked up among the databases *)
add_database_unchecked(s, label, path) ==
    IF ~is_valid_dir(path) THEN Return(s, FALSE)
    ELSE Return([s EXCEPT !.databases = Append(@, Database(label, path))], TRUE)

add_database(s, label, path) ==
    IF ~is_valid_dir(path) THEN Return(s, FALSE)
    ELSE IF Found(s, label) # {} THEN Return(s, FALSE)
    ELSE Return([s EXCEPT !.databases = Append(@, Database(label, path))], TRUE)

(* a faulty variant: the active label does not follow the rename *)
update_database_keeping_active(s, old_label, new_label, path) ==
    IF ~is_valid_dir(path) THEN Return(s, FALSE)
    ELSE IF old_label # new_label /\ Found(s, new_label) # {} THEN Return(s, FALSE)
    ELSE IF Found(s, old_label) = {} THEN Return(s, FALSE)
    ELSE Return([s EXCEPT !.databases[First(Found(s, old_label))] =
                                Database(new_label, path)], TRUE)

update_database(s, old_label, new_label, path) ==
    IF ~is_valid_dir(path) THEN Return(s, FALSE)
    ELSE IF old_label # new_label /\ Found(s, new_label) # {} THEN Return(s, FALSE)
    ELSE IF Found(s, old_label) = {} THEN Return(s, FALSE)
    ELSE Return([s EXCEPT !.databases[First(Found(s, old_label))] =
                                Database(new_label, path),
                          !.active_database =
                                IF @ = old_label THEN new_label ELSE @], TRUE)

without(seq, i) == SubSeq(seq, 1, i - 1) \o SubSeq(seq, i + 1, Len(seq))

(* a faulty variant: the last database can be deleted *)
delete_database_unguarded(s, label) ==
    IF Found(s, label) = {} THEN Return(s, FALSE)
    ELSE LET rest == without(s.databases, First(Found(s, label)))
         IN  Return(Settings(IF s.active_database = label /\ rest # <<>>
                             THEN rest[1].label ELSE s.active_database, rest), TRUE)

delete_database(s, label) ==
    IF Len(s.databases) <= 1 THEN Return(s, FALSE)
    ELSE IF Found(s, label) = {} THEN Return(s, FALSE)
    ELSE LET rest == without(s.databases, First(Found(s, label)))
         IN  Return(Settings(IF s.active_database = label
                             THEN rest[1].label ELSE s.active_database, rest), TRUE)

set_tests_directory(s, path) ==
    IF ~is_valid_dir(path) THEN Return(s, FALSE)
    ELSE IF Found(s, s.active_database) # {}
    THEN Return([s EXCEPT !.databases[First(Found(s, s.active_database))].path = path], TRUE)
    ELSE add_database(s, s.active_database, path)

(* database lists with distinct labels, as a settings file can hold them *)
DatabaseLists ==
    {l \in UNION {[1..n -> [label : Labels, path : ValidDirs]] : n \in 1..Cardinality(Labels)} :
        \A i, j \in DOMAIN l : i # j => l[i].label # l[j].label}

(* _load_settings: no file, an old-format file, or a file with databases *)
SettingsInit ==
    /\ ParkedParser /\ ParkedWidget /\ ParkedConverter /\ ParkedView /\ ParkedFilter /\ ParkedProfiles /\ ParkedForm
    /\ root = "ok" /\ disk = NoEntries /\ df = <<>> /\ op = "init"
    /\ \/ origin = "default" /\ settings = default_settings
       \/ origin = "migrated"
          /\ \E old_path \in Dirs : settings = Settings("Default", <<Database("Default", old_path)>>)
       \/ origin = "loaded"
          /\ \E l \in DatabaseLists, a \in Labels : settings = Settings(a, l)
    /\ returned = None /\ tests_dir = None /\ created_in = None

Called(r, name, args) ==
    /\ settings' = r.settings
    /\ returned' = [value |-> r.returned, args |-> args]
    /\ op' = name
    /\ UNCHANGED <<form_vars, profile_vars, filter_vars, origin, tests_dir, created_in, root, disk, df, parser_vars,
                   widget_vars, converter_vars, view_vars>>

SetActiveDatabase ==
    \E label \in Labels : Called(set_active_database(settings, label), "set_active_database", <<label>>)

AddDatabase ==
    \E label \in Labels, path \in Dirs :
        Called(add_database(settings, label, path), "add_database", <<label, path>>)

UpdateDatabase ==
    \E old_label \in Labels, new_label \in Labels, path \in Dirs :
        Called(update_database(settings, old_label, new_label, path), "update_database",
               <<old_label, new_label, path>>)

DeleteDatabase ==
    \E label \in Labels : Called(delete_database(settings, label), "delete_database", <<label>>)

SetTestsDirectory ==
    \E path \in Dirs : Called(set_tests_directory(settings, path), "set_tests_directory", <<path>>)

SettingsNext ==
    \/ SetActiveDatabase
    \/ AddDatabase
    \/ UpdateDatabase
    \/ DeleteDatabase
    \/ SetTestsDirectory

SpecSettings == SettingsInit /\ [][SettingsNext]_vars

(* C25: the database list is never empty, and delete_database on the last   *)
(* database returns False and changes nothing.                             *)
C25_NeverEmpty == settings.databases # <<>>

C25_LastDatabaseStays ==
    [][(op' = "delete_database" /\ Len(settings.databases) = 1) =>
          (returned'.value = FALSE /\ settings' = settings)]_vars

C25_DatabasesKept == C25_LastDatabaseStays /\ []C25_NeverEmpty

(* C25 witness: delete_database has refused to delete the only database *)
C25_DeleteRefused ==
    /\ op = "delete_database" /\ returned.value = FALSE
    /\ Len(settings.databases) = 1
    /\ settings.databases[1].label = settings.active_database
-----------------------------------------------------------------------------
(* C29: starting from the default settings or from a migrated old-format    *)
(* file, active_database is always the label of an entry of the database   *)
(* list, and get_tests_directory returns the path of that entry.           *)
C29_ActiveDatabaseExists ==
    origin \in {"default", "migrated"} =>
        /\ Cardinality(Found(settings, settings.active_database)) = 1
        /\ \A i \in Found(settings, settings.active_database) :
              get_tests_directory(settings) = settings.databases[i].path

(* C29 witness: the active database has been renamed and given another      *)
(* directory while a second database exists                                *)
C29_ActiveRenamed ==
    /\ origin = "default" /\ op = "update_database" /\ returned.value = TRUE
    /\ returned.args[1] = "Default" /\ returned.args[2] = "Club"
    /\ settings.active_database = "Club"
    /\ Len(settings.databases) = 2
    /\ get_tests_directory(settings) = "range_tests"

(* C30: no two entries of the database list have the same label, and a     *)
(* call that returns False (as an add or a rename to a label in use does)  *)
(* leaves the settings unchanged.                                          *)
DistinctLabels(s) ==
    \A i, j \in 1..Len(s.databases) : i # j => s.databases[i].label # s.databases[j].label

C30_RefusedChangesNothing ==
    [][(\/ op' = "add_database" /\ returned'.args[1] \in LabelsOf(settings)
        \/ op' = "update_database" /\ returned'.args[2] \in LabelsOf(settings)
                                   /\ returned'.args[2] # returned'.args[1])
          => (returned'.value = FALSE /\ settings' = settings)]_vars

C30_LabelsStayUnique == C30_RefusedChangesNothing /\ []DistinctLabels(settings)

(* C30 witness: an add under a label in use, with a directory that is fine, *)
(* has been refused                                                        *)
C30_DuplicateRefused ==
    /\ op = "add_database" /\ returned.value = FALSE
    /\ returned.args[1] \in LabelsOf(settings) /\ returned.args[2] \in ValidDirs
    /\ Len(settings.databases) = 2
-----------------------------------------------------------------------------
(* The Settings dialog and the widgets that keep a tests directory          *)
(* (modules/settings.py, main.py, modules/create_test.py).  tests_dir holds *)
(* ViewTestWidget.tests_dir, CreateTestWidget.tests_dir and the directory  *)
(* DataAnalysisWidget.load_data read last.                                 *)

Widgets == {"view_test", "data_analysis", "create_test"}

(* MainWindow.refresh_after_settings_change: view_test_widget.refresh() and *)
(* data_analysis_widget.refresh()                                          *)
refresh_after_settings_change(td, s) ==
    [td EXCEPT !.view_test = get_tests_directory(s),
               !.data_analysis = get_tests_directory(s)]

(* the rest of a dialog handler: save_settings, then the signals *)
Saved(r, name, args) ==
    /\ settings' = r.settings
    /\ returned' = [value |-> r.returned, args |-> args]
    /\ \E saved \in BOOLEAN :
          IF r.returned /\ saved
          THEN /\ tests_dir' = refresh_after_settings_change(tests_dir, r.settings)
               /\ op' = name
          ELSE /\ UNCHANGED tests_dir
               /\ op' = "dialog:failed"
    /\ UNCHANGED <<form_vars, profile_vars, filter_vars, origin, created_in, root, disk, df, parser_vars, widget_vars,
                   converter_vars, view_vars>>

DialogInit ==
    /\ ParkedParser /\ ParkedWidget /\ ParkedConverter /\ ParkedView /\ ParkedFilter /\ ParkedProfiles /\ ParkedForm
    /\ root = "ok" /\ disk = NoEntries /\ df = <<>> /\ op = "init"
    /\ origin = "loaded"
    /\ \E l \in DatabaseLists : \E a \in {l[i].label : i \in DOMAIN l} :
          settings = Settings(a, l)
    /\ tests_dir = [w \in Widgets |-> get_tests_directory(settings)]
    /\ returned = None /\ created_in = None

(* SettingsDialog.set_active_database *)
DialogSetActive ==
    \E label \in LabelsOf(settings) \ {settings.active_database} :
        Saved(set_active_database(settings, label), "dialog:set_active", <<label>>)

(* SettingsDialog.update_database, an item being selected or not *)
DialogUpdate ==
    \E label \in Labels, path \in ValidDirs :
        \/ label \notin LabelsOf(settings)
           /\ Saved(add_database(settings, label, path), "dialog:add", <<label, path>>)
        \/ \E old_label \in LabelsOf(settings) :
              /\ label = old_label \/ label \notin LabelsOf(settings)
              /\ Saved(update_database(settings, old_label, label, path), "dialog:update",
                       <<old_label, label, path>>)

(* SettingsDialog.delete_database, confirmed *)
DialogDelete ==
    /\ Len(settings.databases) > 1
    /\ \E label \in LabelsOf(settings) :
          Saved(delete_database(settings, label), "dialog:delete", <<label>>)

(* CreateTestWidget.create_test; testCreated refreshes the other two tabs *)
CreateTest ==
    /\ created_in' = tests_dir.create_test
    /\ tests_dir' = refresh_after_settings_change(tests_dir, settings)
    /\ op' = "create_test"
    /\ UNCHANGED <<form_vars, profile_vars, filter_vars, settings, origin, returned, root, disk, df, parser_vars,
                   widget_vars, converter_vars, view_vars>>

(* AdminWidget.componentListsUpdated: CreateTestWidget.refresh *)
ComponentListsUpdated ==
    /\ tests_dir' = [tests_dir EXCEPT !.create_test = get_tests_directory(settings)]
    /\ op' = "componentListsUpdated"
    /\ UNCHANGED <<form_vars, profile_vars, filter_vars, settings, origin, returned, created_in, root, disk, df, parser_vars,
                   widget_vars, converter_vars, view_vars>>

DialogNext ==
    \/ DialogSetActive
    \/ DialogUpdate
    \/ DialogDelete
    \/ CreateTest
    \/ ComponentListsUpdated

SpecDialog == DialogInit /\ [][DialogNext]_vars

(* C21: when a handler of the Settings dialog has changed the directory of  *)
(* the active database, the View Test, Data Analysis and Create Test       *)
(* widgets all use the new directory.                                      *)
C21_WidgetsFollowActive ==
    [][(/\ op' \in {"dialog:set_active", "dialog:update", "dialog:delete"}
        /\ get_tests_directory(settings') # get_tests_directory(settings))
       => \A w \in Widgets : tests_dir'[w] = get_tests_directory(settings')]_vars

(* C21, for the two widgets refresh_after_settings_change reaches *)
C21_RefreshedWidgetsFollowActive ==
    [][(/\ op' \in {"dialog:set_active", "dialog:update", "dialog:delete"}
        /\ get_tests_directory(settings') # get_tests_directory(settings))
       => \A w \in {"view_test", "data_analysis"} :
              tests_dir'[w] = get_tests_directory(settings')]_vars
-----------------------------------------------------------------------------
(* C22: after reset_filters the filtered table holds every row of all_data. *)
C22_ResetShowsAllRows ==
    op = "reset_filters" =>
        /\ error = "none"
        /\ labels(filtered_index) = labels(full_index(all_data))

(* C22, for the rows dated within the month before the day of the reset:   *)
(* those are all in the table when reset_filters ends normally             *)
C22_ResetShowsLastMonth ==
    (op = "reset_filters" /\ error = "none") =>
        labels(filtered_index) =
            {l \in labels(full_index(all_data)) :
                /\ IsStr(at(all_data, l, "date"))
                /\ str_leq(MonthAgo, at(all_data, l, "date")[2])
                /\ str_leq(at(all_data, l, "date")[2], Today)}
-----------------------------------------------------------------------------
(* C28: after a refresh (load_data) the filtered table is what the filter   *)
(* controls, as they stand after the refresh, select from the reloaded     *)
(* table.                                                                  *)
C28_TableAgreesWithControls ==
    [][op' = "load_data" =>
          /\ filter_rows(all_data', ui').error = "none"
          /\ labels(filtered_index') = labels(filter_rows(all_data', ui').index)]_vars
-----------------------------------------------------------------------------
(* The filters of the View Test view.  The model carries the same controls   *)
(* as for the Data Analysis view: the calibre combo, the shots range, the   *)
(* group ES range and the two date controls.                               *)

(* ViewTestWidget.update_filter_ranges: nothing when disable_auto_range is  *)
(* set or the frame is empty, else the registered 'date' filter            *)
view_update_filter_ranges(disable_auto_range, t, index, w) ==
    IF disable_auto_range \/ index = <<>> THEN w
    ELSE update_filter_ranges(t, index, w)

(* the filters of ViewTestWidget.apply_filters that come before the date    *)
(* filter, in the order of the code                                        *)
view_non_date_filters(t, w) ==
    LET by_calibre == equality_filter(t, full_index(t), "calibre", w.calibre_combo)
        by_shots   == range_filter(t, by_calibre, "shots", w.shots_min, w.shots_max,
                                   int_text(w.shots_min), int_text(w.shots_max))
    IN  range_filter(t, by_shots, "group_es_mm", w.group_es_min, w.group_es_max,
                     float_text(w.group_es_min), float_text(w.group_es_max))

(* ViewTestWidget.apply_filters: from_date and to_date are read on entry,   *)
(* the non-date filters run, update_filter_ranges is called with           *)
(* disable_auto_range set, the date mask is applied with the values read   *)
(* on entry, and update_filter_ranges is called once more, again with      *)
(* disable_auto_range set                                                  *)
view_apply_filters(t, w) ==
    LET entry    == w
        non_date == view_non_date_filters(t, w)
        shown    == view_update_filter_ranges(TRUE, t, non_date, w)
        by_date  == date_filter(t, non_date, entry)
    IN  [remaining |-> non_date,
         shown     |-> <<shown.date_from, shown.date_to>>,
         index     |-> by_date,
         ui        |-> view_update_filter_ranges(TRUE, t, by_date, shown)]

(* the tests directories the view is run over: the ones that hold a test,   *)
(* so that the table has its columns                                       *)
ViewTables == {c \in LoadedCorpora : c.disk # NoEntries}

ViewFrame ==
    /\ error' = "none" /\ NoHistory
    /\ selected' = selected_column(all_data', filtered_index')
    /\ UNCHANGED <<form_vars, profile_vars, settings_vars, view_vars, converter_vars, parser_vars, root, df>>

(* ViewTestWidget.load_data, at the end of __init__ *)
FilterInit ==
    /\ ParkedParser /\ ParkedConverter /\ ParkedView /\ ParkedSettings /\ ParkedFilter /\ ParkedProfiles /\ ParkedForm
    /\ root = "ok" /\ df = <<>> /\ op = "load_data"
    /\ \E c \in ViewTables :
        /\ disk = c.disk
        /\ all_data = c.all_data
        /\ filtered_index = full_index(all_data)
        /\ selected = selected_column(all_data, filtered_index)
        /\ ui = view_update_filter_ranges(FALSE, all_data, full_index(all_data), initial_ui)
    /\ error = "none" /\ dropped = {} /\ readmitted = {}

ViewTouched ==
    /\ op' = "touched"
    /\ UNCHANGED <<form_vars, profile_vars, filtered_index, selected, filter_vars>> /\ Touched

ViewEditCalibre ==
    /\ \E c \in CalibreChoices(all_data) : ui' = [ui EXCEPT !.calibre_combo = c]
    /\ ViewTouched

ViewEditShots ==
    /\ \E p \in ShotsTexts : ui' = [ui EXCEPT !.shots_min = p[1], !.shots_max = p[2]]
    /\ ViewTouched

ViewEditGroupEs ==
    /\ \E p \in GroupEsTexts :
          ui' = [ui EXCEPT !.group_es_min = p[1], !.group_es_max = p[2]]
    /\ ViewTouched

ViewEditDates ==
    /\ \E p \in DateRanges \cup {Text(MonthAgo, Today)} :
          ui' = [ui EXCEPT !.date_from = p[1], !.date_to = p[2]]
    /\ ViewTouched

ViewApplyFilters ==
    /\ LET r == view_apply_filters(all_data, ui)
       IN  /\ remaining' = r.remaining
           /\ shown_range' = r.shown
           /\ filtered_index' = r.index
           /\ ui' = r.ui
    /\ op' = "apply_filters"
    /\ UNCHANGED <<disk, all_data>>
    /\ ViewFrame

(* ViewTestWidget.reset_filters: the combos to "All", the line edits        *)
(* cleared, the whole table shown, the dates from the whole table          *)
ViewResetFilters ==
    /\ filtered_index' = full_index(all_data)
    /\ ui' = view_update_filter_ranges(FALSE, all_data, full_index(all_data),
                [ui EXCEPT !.calibre_combo = All,
                           !.shots_min = <<>>, !.shots_max = <<>>,
                           !.group_es_min = <<>>, !.group_es_max = <<>>])
    /\ op' = "reset_filters"
    /\ UNCHANGED <<form_vars, profile_vars, disk, all_data, filter_vars>>
    /\ ViewFrame

(* ViewTestWidget.refresh -> populate_test_ids: the table reloaded and      *)
(* shown whole, the combos refilled                                        *)
ViewPopulateTestIds ==
    /\ \E c \in ViewTables :
        /\ disk' = c.disk
        /\ all_data' = c.all_data
    /\ filtered_index' = full_index(all_data')
    /\ ui' = [ui EXCEPT !.calibre_combo = All]
    /\ op' = "populate_test_ids"
    /\ UNCHANGED filter_vars
    /\ ViewFrame

FilterNext ==
    \/ ViewEditCalibre \/ ViewEditShots \/ ViewEditGroupEs \/ ViewEditDates
    \/ ViewApplyFilters
    \/ ViewResetFilters
    \/ ViewPopulateTestIds

SpecFilter == FilterInit /\ [][FilterNext]_vars

(* C23: in the View Test view, when apply_filters evaluates the date        *)
(* predicate the date controls show the earliest and the latest date of    *)
(* the rows the non-date filters have left.                                *)
C23_RangeShowsRemaining ==
    (op = "apply_filters" /\ remaining # <<>>
        /\ \A l \in labels(remaining) :
              IsStr(at(all_data, l, "date")) /\ is_valid_date(at(all_data, l, "date")[2]))
    => LET texts == {at(all_data, l, "date")[2] : l \in labels(remaining)}
       IN  shown_range = <<str_min(texts), str_max(texts)>>
-----------------------------------------------------------------------------
(* The profiles of the wind plot.  A profile is a dict; the model keeps its  *)
(* name.  The two dicts of DEFAULT_PROFILES are objects that several lists  *)
(* can hold, so an entry of a list is either one of them, by position, or   *)
(* a dict of its own, by value.                                            *)

Default(k) == <<"default", k>>
Own(name) == <<"own", name>>

ProfileNames == {"223 Rem", "6.5 CM", "308 Win"}
MaxProfiles == 3

Absent == <<"absent">>
Unusable == <<"unusable">>

(* the module as imported: the list of the two default dicts *)
imported_defaults == <<Default(1), Default(2)>>
imported_names == <<"223 Rem", "6.5 CM">>

name_of(entry, names) == IF entry[1] = "default" THEN names[entry[2]] ELSE entry[2]

(* yaml.dump({"profiles": self.profiles}) *)
dumped(list, names) == [i \in 1..Len(list) |-> name_of(list[i], names)]

(* load_profiles: the list of the file when it holds one under "profiles",  *)
(* else self.profiles = DEFAULT_PROFILES, the list object itself, which is  *)
(* then saved                                                              *)
load_profiles(file) ==
    IF file # Absent /\ file # Unusable
    THEN [profiles |-> [i \in 1..Len(file) |-> Own(file[i])], aliased |-> FALSE, file |-> file]
    ELSE [profiles |-> imported_defaults, aliased |-> TRUE,
          file |-> dumped(imported_defaults, imported_names)]

(* list[:1] *)
first_of(list) == IF list = <<>> THEN <<>> ELSE <<list[1]>>

(* populate_profile_dropdown: clear() and the first addItem make the combo  *)
(* emit currentIndexChanged(0), which on_profile_selected takes when a     *)
(* profile exists                                                          *)
populate_profile_dropdown(list, index) == IF list # <<>> THEN 0 ELSE index

(* a list operation on self.profiles reaches DEFAULT_PROFILES when the two  *)
(* are one object                                                          *)
Mutate(list) ==
    /\ profiles' = list
    /\ DEFAULT_PROFILES' = IF aliased THEN list ELSE DEFAULT_PROFILES

ProfileFrame ==
    UNCHANGED <<form_vars, filter_vars, settings_vars, view_vars, converter_vars, parser_vars,
                root, disk, df, widget_vars>>

ProfileFiles ==
    {Absent, Unusable} \cup {<<n>> : n \in ProfileNames}
        \cup {<<"223 Rem", "6.5 CM">>}

(* a run of the program: the module is imported and WindPlotWidget built *)
Started(file) ==
    LET r == load_profiles(file)
    IN  /\ profiles = r.profiles /\ aliased = r.aliased /\ profiles_file = r.file
        /\ DEFAULT_PROFILES = imported_defaults /\ default_name = imported_names
        /\ current_profile_index = 0

ProfilesInit ==
    /\ ParkedParser /\ ParkedWidget /\ ParkedConverter /\ ParkedView /\ ParkedSettings /\ ParkedForm
    /\ ParkedFilter /\ ParkedForm
    /\ root = "ok" /\ disk = NoEntries /\ df = <<>> /\ op = "init"
    /\ \E file \in ProfileFiles : Started(file)

(* the program is closed and run again over the file it left *)
Restart ==
    /\ LET r == load_profiles(profiles_file)
       IN  /\ profiles' = r.profiles /\ aliased' = r.aliased /\ profiles_file' = r.file
    /\ DEFAULT_PROFILES' = imported_defaults /\ default_name' = imported_names
    /\ current_profile_index' = 0
    /\ op' = "Restart"
    /\ ProfileFrame

on_profile_selected ==
    /\ \E index \in 0..(Len(profiles) - 1) : current_profile_index' = index
    /\ UNCHANGED <<profiles, DEFAULT_PROFILES, default_name, aliased, profiles_file>>
    /\ op' = "on_profile_selected"
    /\ ProfileFrame

(* create_new_profile, the dialog accepted: append, save, repopulate,       *)
(* select the new profile                                                  *)
create_new_profile ==
    /\ Len(profiles) < MaxProfiles
    /\ \E name \in ProfileNames :
        /\ Mutate(Append(profiles, Own(name)))
        /\ profiles_file' = dumped(profiles', default_name)
    /\ current_profile_index' = Len(profiles') - 1
    /\ UNCHANGED <<default_name, aliased>>
    /\ op' = "create_new_profile"
    /\ ProfileFrame

(* edit_current_profile, the dialog accepted: get_profile_data writes the   *)
(* name into the dict it was given, which stays in the list                *)
edit_current_profile ==
    /\ profiles # <<>>
    /\ \E name \in ProfileNames :
        LET entry == profiles[current_profile_index + 1]
        IN  IF entry[1] = "default"
            THEN /\ default_name' = [default_name EXCEPT ![entry[2]] = name]
                 /\ UNCHANGED <<profiles, DEFAULT_PROFILES>>
            ELSE /\ Mutate([profiles EXCEPT ![current_profile_index + 1] = Own(name)])
                 /\ UNCHANGED default_name
    /\ profiles_file' = dumped(profiles', default_name')
    /\ current_profile_index' = populate_profile_dropdown(profiles', current_profile_index)
    /\ UNCHANGED aliased
    /\ op' = "edit_current_profile"
    /\ ProfileFrame

(* delete_current_profile, confirmed: del self.profiles[index], save,       *)
(* repopulate; with none left, self.profiles = DEFAULT_PROFILES[:1], a new  *)
(* list, saved in turn                                                     *)
delete_current_profile ==
    /\ profiles # <<>>
    /\ LET left     == without(profiles, current_profile_index + 1)
           defaults == IF aliased THEN left ELSE DEFAULT_PROFILES
       IN  /\ DEFAULT_PROFILES' = defaults
           /\ IF left # <<>>
              THEN /\ profiles' = left
                   /\ UNCHANGED aliased
              ELSE /\ profiles' = first_of(defaults)
                   /\ aliased' = FALSE
    /\ profiles_file' = dumped(profiles', default_name)
    /\ current_profile_index' = 0
    /\ UNCHANGED default_name
    /\ op' = "delete_current_profile"
    /\ ProfileFrame

ProfilesNext ==
    \/ Restart
    \/ on_profile_selected
    \/ create_new_profile
    \/ edit_current_profile
    \/ delete_current_profile

SpecProfiles == ProfilesInit /\ [][ProfilesNext]_vars

(* C24: the wind plot always has at least one profile. *)
C24_ProfilesNeverEmpty == profiles # <<>>
-----------------------------------------------------------------------------
(* The detail form of the View Test view: populate_details, clear_details   *)
(* and save_changes (modules/view_test.py).  The model carries the date     *)
(* edit, the distance combo, the barrel length and bushing size spin boxes, *)
(* the neck turned combo and the line edits of shots, group ES (mm) and     *)
(* group ES (MOA).  Numbers are held in thousandths; a whole Num in a       *)
(* document stands for a YAML integer.                                     *)

DigitChar(n) == CHOOSE c \in Digits : DigitVal(c) = n

RECURSIVE digits_of(_)
digits_of(n) ==
    IF n < 10 THEN <<DigitChar(n)>> ELSE Append(digits_of(n \div 10), DigitChar(n % 10))

RECURSIVE rstrip_zeros(_)
rstrip_zeros(t) ==
    IF t # <<>> /\ t[Len(t)] = "0" THEN rstrip_zeros(SubSeq(t, 1, Len(t) - 1)) ELSE t

(* str(v) of None, of a str, of an int and of a float *)
str(v) ==
    IF v = None THEN <<"N", "o", "n", "e">>
    ELSE IF IsStr(v) THEN v[2]
    ELSE LET whole == v[2] \div 1000
             frac  == v[2] % 1000
         IN  IF frac = 0 THEN digits_of(whole)
             ELSE digits_of(whole) \o <<".">>
                    \o rstrip_zeros(<<DigitChar(frac \div 100), DigitChar((frac \div 10) % 10),
                                      DigitChar(frac % 10)>>)

(* f"{x:.2f}" of a number of so many hundredths *)
two_decimals(h) ==
    digits_of(h \div 100) \o <<".", DigitChar((h \div 10) % 10), DigitChar(h % 10)>>

(* the hundredths nearest to a Num and to a quotient Float(n, d) *)
hundredths(v) ==
    IF IsFloat(v) THEN (2 * 100 * v[2] + v[3]) \div (2 * v[3])
    ELSE (v[2] + 5) \div 10

(* round(x, 2), as a Num *)
round2(v) == Num(hundredths(v) * 10)

RECURSIVE lstrip(_)
lstrip(t) == IF t # <<>> /\ t[1] = " " THEN lstrip(Tail(t)) ELSE t

RECURSIVE rstrip(_)
rstrip(t) == IF t # <<>> /\ t[Len(t)] = " " THEN rstrip(SubSeq(t, 1, Len(t) - 1)) ELSE t

strip(t) == rstrip(lstrip(t))

(* bool(v) of a value of a document *)
truthy(v) == v # None /\ v # Num(0) /\ v # Str(<<>>)

(* QDoubleSpinBox.setValue: rounded to the decimals of the box (step, in    *)
(* thousandths) and kept within its range                                  *)
spin_value(n, step, maximum) ==
    LET rounded == ((n + step \div 2) \div step) * step
    IN  IF rounded > maximum THEN maximum ELSE IF rounded < 0 THEN 0 ELSE rounded

(* the spin box after "try: setValue(float(x))", f being float(x) *)
try_setValue(old, f, step, maximum) ==
    IF ~IsNum(f) THEN old ELSE spin_value(f[2], step, maximum)

(* the spin box after "if x is not None: try: setValue(float(x))" *)
set_spin(old, x, step, maximum) ==
    IF x = None THEN old ELSE try_setValue(old, float(x), step, maximum)

No  == <<"N", "o">>
Yes == <<"Y", "e", "s">>
FirstDistance == <<"1", "0", "0", "m">>

(* the form as setup_ui leaves it *)
initial_form ==
    [date_edit |-> Today, distance_combo |-> FirstDistance,
     barrel_length_spin |-> 0, neck_turned_combo |-> No, bushing_size_spin |-> 0,
     shots_edit |-> <<>>, group_es_mm_edit |-> <<>>, group_es_moa_edit |-> <<>>]

(* f"{float(moa_value):.2f}", f being float(moa_value), and the except     *)
(* branch of format_moa                                                    *)
format_float(f, moa) == IF IsNum(f) THEN two_decimals(hundredths(f)) ELSE str(moa)

(* format_moa of populate_details *)
format_moa(moa) == IF moa = Str(<<>>) THEN <<>> ELSE format_float(float(moa), moa)

(* f"{moa_value:.2f}" if moa_value is not None else '' *)
moa_or_blank(value) == IF value = None THEN <<>> ELSE two_decimals(hundredths(value))

(* the try block that computes the MOA text, m and d being float(mm) and    *)
(* float(distance_m)                                                       *)
computed_moa(m, d) ==
    IF ~IsNum(m) \/ ~IsNum(d) THEN <<>> ELSE moa_or_blank(mm_to_moa(m, d))

(* the text of the MOA edit beside an mm edit *)
moa_text(mm, moa, distance) ==
    IF truthy(mm) /\ ~truthy(moa) /\ truthy(distance)
    THEN computed_moa(float(mm), float(distance))
    ELSE format_moa(moa)

(* populate_details, block by block.  Test Info: the date edit takes a      *)
(* valid date, the distance combo the distance followed by "m"             *)
set_date(w, date_str) ==
    [w EXCEPT !.date_edit = IF is_valid_date(date_str) THEN date_str ELSE @]

set_distance(w, distance) ==
    [w EXCEPT !.distance_combo = IF distance # <<>> THEN distance \o <<"m">> ELSE @]

populate_test_info(w, data) ==
    set_distance(set_date(w, str(get(data, "date", Str(<<>>)))),
                 str(get(data, "distance_m", Str(<<>>))))

populate_platform(w, platform_data) ==
    [w EXCEPT !.barrel_length_spin =
        set_spin(@, get(platform_data, "barrel_length_in", None), 100, 99900)]

set_neck_turned(w, neck_turned) ==
    [w EXCEPT !.neck_turned_combo = IF neck_turned \in {No, Yes} THEN neck_turned ELSE @]

populate_case(w, case_data) ==
    [set_neck_turned(w, str(get(case_data, "neck_turned", Str(No))))
        EXCEPT !.bushing_size_spin =
                  set_spin(@, get(case_data, "bushing_size", None), 1, 9999)]

populate_group(w, group_data, distance) ==
    [w EXCEPT
        !.shots_edit = str(get(group_data, "shots", Str(<<>>))),
        !.group_es_mm_edit = str(get(group_data, "group_es_mm", Str(<<>>))),
        !.group_es_moa_edit = moa_text(get(group_data, "group_es_mm", Str(<<>>)),
                                       get(group_data, "group_es_moa", Str(<<>>)),
                                       distance)]

Populated(w) == [form |-> w, raised |-> FALSE]
AttributeError(w) == [form |-> w, raised |-> TRUE]

(* .get on a value that is not a dict raises AttributeError; the widgets    *)
(* set before it stay set                                                  *)
from_group(w, data, group_data) ==
    IF ~IsMap(group_data) THEN AttributeError(w)
    ELSE Populated(populate_group(w, group_data, get(data, "distance_m", None)))

from_case(w, data, case_data) ==
    IF ~IsMap(case_data) THEN AttributeError(w)
    ELSE from_group(populate_case(w, case_data), data, get(data, "group", EmptyDict))

from_ammo(w, data, ammo_data) ==
    IF ~IsMap(ammo_data) THEN AttributeError(w)
    ELSE from_case(w, data, get(ammo_data, "case", EmptyDict))

from_platform(w, data, platform_data) ==
    IF ~IsMap(platform_data) THEN AttributeError(w)
    ELSE from_ammo(populate_platform(w, platform_data), data, get(data, "ammo", EmptyDict))

(* populate_details over the mapping data: the widgets afterwards, and      *)
(* whether AttributeError was raised on the way                            *)
populate_details(w, data) ==
    from_platform(populate_test_info(w, data), data, get(data, "platform", EmptyDict))

(* clear_details: the date to today, the combos of the lists to their       *)
(* first item, the line edits cleared; the barrel length and bushing size  *)
(* spin boxes and the neck turned combo are not among the widgets reset    *)
clear_details(w) ==
    [w EXCEPT !.date_edit = Today, !.distance_combo = FirstDistance,
              !.shots_edit = <<>>, !.group_es_mm_edit = <<>>, !.group_es_moa_edit = <<>>]
(* text.replace(c, '') for a one-character c *)
without_char(t, c) == select_seq(t, {t[i] : i \in 1..Len(t)} \ {c})

(* the marker safe_convert returns for a text that does not convert *)
INVALID_INPUT == Str(<<"INVALID_INPUT">>)

(* "return None" in place of the marker *)
unmarked(converted) == IF converted = ValueError THEN None ELSE converted

(* try: return type_func(stripped_text), except ValueError: the marker *)
marked(converted) == IF converted = ValueError THEN INVALID_INPUT ELSE converted

type_func_of(stripped_text, type_func) ==
    IF type_func = "int" THEN int_text(stripped_text) ELSE float_text(stripped_text)

(* a faulty variant of safe_convert: a text that does not convert counts    *)
(* as an empty one                                                         *)
safe_convert_unmarked(text, type_func) ==
    IF strip(text) = <<>> THEN None ELSE unmarked(type_func_of(strip(text), type_func))

(* safe_convert of save_changes: None for a blank text, the number, or the  *)
(* marker after a ValueError                                               *)
safe_convert(text, type_func) ==
    IF strip(text) = <<>> THEN None ELSE marked(type_func_of(strip(text), type_func))

(* format_moa_value of save_changes *)
format_moa_value(moa_val) ==
    IF moa_val # None /\ moa_val # INVALID_INPUT THEN round2(float(moa_val)) ELSE moa_val

(* "if moa is not None: moa = round(moa, 2)" *)
rounded(moa) == IF moa # None THEN round2(moa) ELSE None

(* the MOA value saved beside an mm value: computed when the MOA edit is    *)
(* blank and the distance known, else what the MOA edit holds              *)
moa_to_save(mm_val, moa_val, distance) ==
    IF mm_val # None /\ moa_val = None /\ distance # None
    THEN rounded(mm_to_moa(mm_val, distance))
    ELSE format_moa_value(moa_val)

(* int(distance_text.replace('m', '')) of a non-empty text of the combo *)
distance_value(distance_text) ==
    IF distance_text = <<>> THEN None ELSE int_text(without_char(distance_text, "m"))

NoKeys == [k \in {} |-> None]

(* a key of a dict that remove_none_values keeps: its value is neither      *)
(* None nor an empty dict                                                  *)
kept(k, v) == IF v = None \/ v = Map(NoKeys) THEN NoKeys ELSE (k :> v)

(* case_data, written when any of its values is truthy *)
case_to_save(w) ==
    IF w.neck_turned_combo # <<>> \/ w.bushing_size_spin # 0
    THEN Map(kept("neck_turned", IF w.neck_turned_combo # <<>>
                                 THEN Str(w.neck_turned_combo) ELSE None)
                @@ ("bushing_size" :> Num(w.bushing_size_spin)))
    ELSE None

(* error_occurred and final_data_to_save, the conversions done *)
converted_data(w, distance_val, shots_val, es_mm_val, es_moa_val) ==
    [error_occurred |->
         distance_val = ValueError \/ INVALID_INPUT \in {shots_val, es_mm_val, es_moa_val},
     final_data_to_save |->
         ("date" :> Str(w.date_edit))
            @@ kept("distance_m", IF distance_val = ValueError THEN None ELSE distance_val)
            @@ kept("platform",
                    Map(kept("barrel_length_in",
                             IF w.barrel_length_spin > 0 THEN Num(w.barrel_length_spin)
                             ELSE None)))
            @@ kept("ammo", Map(kept("case", case_to_save(w))))
            @@ kept("group", Map(kept("shots", shots_val) @@ kept("group_es_mm", es_mm_val)
                                    @@ kept("group_es_moa", es_moa_val)))]

with_moa(w, distance_val, shots_val, es_mm_val, es_moa_typed) ==
    converted_data(w, distance_val, shots_val, es_mm_val,
                   moa_to_save(es_mm_val, es_moa_typed,
                               IF distance_val = ValueError THEN None ELSE distance_val))

(* save_changes up to "if error_occurred: return": whether a conversion     *)
(* failed, and final_data_to_save                                          *)
updated_data(w) ==
    with_moa(w, distance_value(w.distance_combo),
             safe_convert(w.shots_edit, "int"),
             safe_convert(w.group_es_mm_edit, "float"),
             safe_convert(w.group_es_moa_edit, "float"))

(* the tables of the two views, loaded over the test directories *)
table_of(f) == [t \in DOMAIN f |-> load_group_data(f[t])]

(* the tests and the documents the form is run over *)
TestA == <<"A">>
TestB == <<"B">>

MeasuredDoc ==
    Yaml([date |-> Str(Text2024), distance_m |-> Num(300000),
          platform |-> Map([barrel_length_in |-> Num(26000)]),
          ammo |-> Map([case |-> Map([neck_turned |-> Str(Yes),
                                      bushing_size |-> Num(290)])]),
          group |-> Map([shots |-> Num(5000), group_es_mm |-> Num(15200),
                         group_es_moa |-> Num(170)])])

LackingDoc ==
    Yaml([group |-> Map([shots |-> Num(3000)])])

ChangedDocs == {NullAmmoDoc, NotMapping, NoFile}

ShotsEdits   == {<<>>, <<"4", " ">>, <<"5", ".", "0">>}
GroupEsEdits == {<<"1", "2", ",", "9">>}

MaxSaves == 1

FormFrame ==
    UNCHANGED <<profile_vars, filter_vars, settings_vars, converter_vars, parser_vars,
                root, disk, df, widget_vars, view_all_data, deleted_test>>

FormInit ==
    /\ ParkedParser /\ ParkedWidget /\ ParkedConverter /\ ParkedSettings
    /\ ParkedFilter /\ ParkedProfiles
    /\ root = "ok" /\ disk = NoEntries /\ df = <<>> /\ op = "init"
    /\ view_all_data = <<>> /\ deleted_test = None /\ current_test_id = None
    /\ form = initial_form /\ shown_data = EmptyDict
    /\ \E doc \in {LackingDoc, SparseDoc} : files = (TestA :> MeasuredDoc) @@ (TestB :> doc)
    /\ \E t \in {table_of(files)} : tables = [view |-> t, analysis |-> t]
    /\ emitted = 0 /\ edited = FALSE

(* on_table_selection_changed on the row of a test *)
on_table_selection_changed ==
    /\ \E test_id \in DOMAIN files :
        \E data \in {IF files[test_id].kind = "mapping" THEN Map(files[test_id].data)
                      ELSE EmptyDict} :
        \E r \in {populate_details(form, data)} :
            IF files[test_id].kind \in {"absent", "unreadable"}
            THEN /\ current_test_id' = None /\ shown_data' = EmptyDict
                 /\ form' = clear_details(form)
            ELSE IF r.raised
            THEN /\ current_test_id' = None /\ shown_data' = EmptyDict
                 /\ form' = clear_details(r.form)
            ELSE /\ current_test_id' = test_id /\ shown_data' = data
                 /\ form' = r.form
    /\ edited' = FALSE
    /\ op' = "on_table_selection_changed"
    /\ UNCHANGED <<files, tables, emitted>>
    /\ FormFrame

(* the user types into a line edit or turns a spin box *)
Typed ==
    /\ edited' = TRUE /\ op' = "typed"
    /\ UNCHANGED <<current_test_id, shown_data, files, tables, emitted>>
    /\ FormFrame

TypeShots ==
    /\ \E t \in ShotsEdits : form' = [form EXCEPT !.shots_edit = t]
    /\ Typed

TypeGroupEs ==
    /\ \E t \in GroupEsEdits : form' = [form EXCEPT !.group_es_mm_edit = t]
    /\ Typed

TurnBarrelLength ==
    /\ \E n \in {0, 24000} : form' = [form EXCEPT !.barrel_length_spin = n]
    /\ Typed

(* a group.yaml is written or removed outside the program *)
FileChanged ==
    /\ files[TestB] \in {LackingDoc, SparseDoc}
    /\ \E doc \in ChangedDocs : files' = [files EXCEPT ![TestB] = doc]
    /\ op' = "file_changed"
    /\ UNCHANGED <<current_test_id, shown_data, form, tables, emitted, edited>>
    /\ FormFrame

(* save_changes: nothing without a current test or after a failed           *)
(* conversion; else group.yaml is written, test_data replaced, testUpdated *)
(* emitted (Data Analysis reloads) and load_data run (View Test reloads)   *)
save_changes ==
    /\ emitted < MaxSaves
    /\ \E r \in {updated_data(form)} :
           IF current_test_id = None \/ r.error_occurred
           THEN UNCHANGED <<shown_data, files, tables, emitted>>
           ELSE /\ files' = [files EXCEPT ![current_test_id] = Yaml(r.final_data_to_save)]
                /\ shown_data' = Map(r.final_data_to_save)
                /\ emitted' = emitted + 1
                /\ \E t \in {table_of(files')} : tables' = [view |-> t, analysis |-> t]
    /\ op' = "save_changes"
    /\ UNCHANGED <<current_test_id, form, edited>>
    /\ FormFrame

FormNext ==
    \/ on_table_selection_changed
    \/ TypeShots \/ TypeGroupEs \/ TurnBarrelLength
    \/ FileChanged
    \/ save_changes

SpecForm == FormInit /\ [][FormNext]_vars

(* a line edit holds a text that is not blank and is not a number *)
Unparsable(text, type_func) ==
    strip(text) # <<>> /\ type_func_of(strip(text), type_func) = ValueError

BadNumber(w) ==
    \/ Unparsable(w.shots_edit, "int")
    \/ Unparsable(w.group_es_mm_edit, "float")
    \/ Unparsable(w.group_es_moa_edit, "float")

(* C26: save_changes with a numeric field that does not parse leaves        *)
(* group.yaml, test_data and the two tables as they were and emits no      *)
(* testUpdated.                                                            *)
C26_BadNumberWritesNothing ==
    [][(op' = "save_changes" /\ BadNumber(form))
          => UNCHANGED <<files, shown_data, tables, emitted>>]_vars

(* C26, the case: a test is shown, a number of the form does not parse,     *)
(* save_changes has run, and the tables still show a file that has been    *)
(* changed since they were loaded.                                         *)
C26_BadNumberRefused ==
    /\ op = "save_changes" /\ current_test_id # None /\ BadNumber(form)
    /\ tables.view # table_of(files)

(* the fields of group.yaml the form model carries, and the values a        *)
(* document holds for them                                                 *)
FormPaths ==
    {<<"date">>, <<"distance_m">>, <<"platform", "barrel_length_in">>,
     <<"ammo", "case", "neck_turned">>, <<"ammo", "case", "bushing_size">>,
     <<"group", "shots">>, <<"group", "group_es_mm">>, <<"group", "group_es_moa">>}

Held(doc) ==
    IF doc.kind # "mapping" THEN {}
    ELSE {<<p, Lookup(doc.data, p)>> : p \in {q \in FormPaths : Lookup(doc.data, q) # None}}

(* C27: save_changes on a test selected and not edited writes to its        *)
(* group.yaml only values the file already held.                           *)
C27_SavedUneditedIsUnchanged ==
    [][(op' = "save_changes" /\ ~edited /\ current_test_id # None /\ emitted' # emitted)
          => Held(files'[current_test_id]) \subseteq Held(files[current_test_id])]_vars

====
